---- MODULE Spec2Model ----
(***************************************************************************)
(* The voxel game (src/unnamed/part_002) as a state machine: the world     *)
(* store with lazy terrain generation, the pick ray, block break / place,  *)
(* the inventory, the TNT entities, the session modes and the frame loop.  *)
(*                                                                         *)
(* Numbers.  Voxel coordinates are integers.  Continuous quantities        *)
(* (positions, velocities, distances) are fixed-point integers in units of *)
(* 1/Unit of a world unit; direction cosines and the terrain noise are     *)
(* fixed-point in units of 1/Fx.  IEEE rounding of the last bit is not     *)
(* modelled.                                                               *)
(*                                                                         *)
(* The frame loop of the shooter (src/pages/Index.tsx) is modelled beside  *)
(* it, in the variable shooter.                                            *)
(*                                                                         *)
(* Rendering.  Both components are taken as a production build run by      *)
(* React 18 (createRoot): an updater function runs once; the updates of a  *)
(* keydown, keyup, mousedown or click handler are rendered and the effects *)
(* of that render run before any other task; the updates of a frame        *)
(* callback are rendered in a later task, and the effects of that render   *)
(* in a task after it.  In the voxel game the two updaters of a frame are  *)
(* applied when its callback runs.                                         *)
(***************************************************************************)
EXTENDS Integers, Sequences, FiniteSets, TLC

VARIABLES
    world,           \* worldRef.current: chunk key -> chunk
    treeDraw,        \* the columns whose Math.random() draw in generateTerrain is < 0.015
    call,            \* the last call made on the store, with the world before it
    touched,         \* the chunk coordinates addressed since the last start
    gameMode,        \* useState gameMode
    player,          \* useState player
    inventory,       \* useState inventory
    tntEntities,     \* useState tntEntities
    keys,            \* useState keys
    isPointerLocked, \* useState isPointerLocked
    lockEl,          \* document.pointerLockElement is the canvas
    lockReq,         \* a pointer-lock request the browser has not answered yet
    eff,             \* what the listeners of the input effect captured when it last ran
    loop,            \* what gameLoop captured when the scheduling effect last ran
    frames,          \* the requested animation frames, each with what its callback captured
    refLive,         \* animationRef.current names the last frame of frames
    pending,         \* state updates wait for a render: "none", "sync" or "async"
    last,            \* the last handler run, with what it saw
    booms,           \* detonations since the session started
    nEvents,
    nTicks,
    shooter          \* the component of src/pages/Index.tsx: its state, render queue and frames

storeVars == <<world, treeDraw, call, touched>>

voxelVars == <<gameMode, player, inventory, tntEntities, keys, isPointerLocked, lockEl,
               lockReq, eff, loop, frames, refLive, pending, last, booms, nEvents, nTicks>>

sessionVars == <<voxelVars, shooter>>

vars == <<storeVars, sessionVars>>

CHUNK_SIZE == 16
WORLD_HEIGHT == 64

ALL_BLOCKS == <<"grass", "dirt", "stone", "wood", "planks", "leaves", "sand",
                "cobblestone", "glass", "brick", "water", "tnt">>

BlockType == {"air"} \cup {ALL_BLOCKS[i] : i \in 1..Len(ALL_BLOCKS)}

\* ------------------------------------------------------------------------
\* JavaScript arithmetic on integers

\* a % b of JavaScript: the remainder takes the sign of the dividend.
JsRem(a, b) == IF a >= 0 THEN a % b ELSE -((-a) % b)

\* Math.floor(a / b) for integers a and b > 0.
FloorDiv(a, b) == a \div b

Abs(a) == IF a < 0 THEN -a ELSE a

\* ------------------------------------------------------------------------
\* Fixed point for the terrain noise: Fx units per 1.0, rounded to nearest.

Fx == 100 * 100

\* Division rounded to the nearest integer (b even).
RDiv(a, b) == (a + b \div 2) \div b

FxMul(a, b) == RDiv(a * b, Fx)

\* Math.sin / Math.cos by their Taylor polynomials in Horner form, for |a| up
\* to pi/2 and beyond; exact to the floor taken in generateTerrain for every world
\* column of TerrainColumns.
FxSin(a) ==
    LET a2 == FxMul(a, a)
        h4 == Fx - RDiv(a2, 72)
        h3 == Fx - RDiv(FxMul(a2, h4), 42)
        h2 == Fx - RDiv(FxMul(a2, h3), 20)
        h1 == Fx - RDiv(FxMul(a2, h2), 6)
    IN  FxMul(a, h1)

FxCos(a) ==
    LET a2 == FxMul(a, a)
        h4 == Fx - RDiv(a2, 56)
        h3 == Fx - RDiv(FxMul(a2, h4), 30)
        h2 == Fx - RDiv(FxMul(a2, h3), 12)
    IN  Fx - RDiv(FxMul(a2, h2), 2)

\* ------------------------------------------------------------------------
\* generateTerrain

\* height = Math.floor(32 + sin(wx*0.05)*cos(wz*0.05)*3 + sin(wx*0.02)*cos(wz*0.02)*8)
HeightFormula(wx, wz) ==
    LET noise1 == FxMul(FxSin(wx * 500), FxCos(wz * 500)) * 3
        noise2 == FxMul(FxSin(wx * 200), FxCos(wz * 200)) * 8
    IN  FloorDiv(32 * Fx + noise1 + noise2, Fx)

\* biome = sin(wx*0.01) + cos(wz*0.01), in Fx units
BiomeFormula(wx, wz) == FxSin(wx * 100) + FxCos(wz * 100)

\* The world coordinates the model generates terrain for, and the two closed
\* forms evaluated once over them.
TerrainWindow == (-2 * CHUNK_SIZE)..(CHUNK_SIZE + 10)

\* Two chunks further west, where biome <= 0.5 on most columns and trees can
\* grow.
GrassChunks == {<<-4, -1>>, <<-4, 0>>}

TerrainColumns ==
    (TerrainWindow \X TerrainWindow)
        \cup UNION {((c[1] * CHUNK_SIZE)..(c[1] * CHUNK_SIZE + CHUNK_SIZE - 1))
                        \X ((c[2] * CHUNK_SIZE)..(c[2] * CHUNK_SIZE + CHUNK_SIZE - 1)) :
                     c \in GrassChunks}

\* Both formulas tabulated once over these columns.
HeightTable == [c \in TerrainColumns |-> HeightFormula(c[1], c[2])] @@ <<>>

BiomeTable == [c \in TerrainColumns |-> BiomeFormula(c[1], c[2])] @@ <<>>

TerrainHeight(wx, wz) == HeightTable[<<wx, wz>>]

TerrainBiome(wx, wz) == BiomeTable[<<wx, wz>>]

SandBiome(wx, wz) == 2 * TerrainBiome(wx, wz) > Fx

\* The column loop visits x outermost, z innermost.
ColumnOrder(lx, lz) == lx * CHUNK_SIZE + lz

\* The columns of chunk (cx, cz) that get a tree, given the columns whose
\* random draw is below 0.015.
TreeColumns(cx, cz, draw) ==
    {c \in draw :
        /\ c[1] \in 0..(CHUNK_SIZE - 1) /\ c[2] \in 0..(CHUNK_SIZE - 1)
        /\ ~SandBiome(cx * CHUNK_SIZE + c[1], cz * CHUNK_SIZE + c[2])
        /\ TerrainHeight(cx * CHUNK_SIZE + c[1], cz * CHUNK_SIZE + c[2]) < WORLD_HEIGHT - 6}

\* A generation in which a tree turns the top layer of its column to dirt.
GenBlockTrodden(cx, cz, trees, lx, y, lz) ==
    LET height == TerrainHeight(cx * CHUNK_SIZE + lx, cz * CHUNK_SIZE + lz)
    IN  IF y >= height THEN "air"
        ELSE IF y = 0 \/ y < height - 4 THEN "stone"
        ELSE IF y < height - 1 \/ <<lx, lz>> \in trees THEN "dirt"
        ELSE IF SandBiome(cx * CHUNK_SIZE + lx, cz * CHUNK_SIZE + lz) THEN "sand"
        ELSE "grass"
\* The voxel that generateTerrain leaves at local (lx, y, lz) of chunk (cx, cz)
\* whose tree columns are trees: the last write of the column loop to that cell.
GenBlock(cx, cz, trees, lx, y, lz) ==
    LET wx == cx * CHUNK_SIZE + lx
        wz == cz * CHUNK_SIZE + lz
        height == TerrainHeight(wx, wz)
        sand == SandBiome(wx, wz)
        HeightOf(c) == TerrainHeight(cx * CHUNK_SIZE + c[1], cz * CHUNK_SIZE + c[2])
        Canopy(c) == /\ Abs(c[1] - lx) + Abs(c[2] - lz) <= 2
                     /\ y >= HeightOf(c) + 4 /\ y < HeightOf(c) + 7
                     /\ y < WORLD_HEIGHT
        later == \E c \in trees : /\ ColumnOrder(c[1], c[2]) > ColumnOrder(lx, lz)
                                  /\ Canopy(c)
        earlier == \E c \in trees : /\ ColumnOrder(c[1], c[2]) < ColumnOrder(lx, lz)
                                    /\ Canopy(c)
        own == <<lx, lz>> \in trees
        fill == IF y = 0 THEN "stone"
                ELSE IF y < height - 4 THEN "stone"
                ELSE IF y < height - 1 THEN "dirt"
                ELSE IF sand THEN "sand" ELSE "grass"
    IN  IF later THEN "leaves"
        ELSE IF sand /\ height > 30 /\ height < 34 /\ (y = height \/ y = height + 1)
            THEN "water"
        ELSE IF own /\ Canopy(<<lx, lz>>) THEN "leaves"
        ELSE IF own /\ y >= height /\ y < height + 5 THEN "wood"
        ELSE IF y < height THEN fill
        ELSE IF earlier THEN "leaves"
        ELSE "air"

\* A chunk is the generated array plus the cells overwritten since: edits maps
\* local <<lx, y, lz>> to the block stored there, and holds no entry equal to
\* the generated voxel.
generateTerrain(cx, cz, draw) ==
    [cx |-> cx, cz |-> cz, trees |-> TreeColumns(cx, cz, draw), edits |-> <<>>]

\* The block that chunk[lx][y][lz] reads.  An lx outside the array makes
\* chunk[lx] undefined and the access throws; an lz outside it reads a property
\* that is only there once written.
ChunkCell(chunk, lx, y, lz) ==
    IF lx \notin 0..(CHUNK_SIZE - 1) THEN "TypeError"
    ELSE IF <<lx, y, lz>> \in DOMAIN chunk.edits THEN chunk.edits[<<lx, y, lz>>]
    ELSE IF lz \notin 0..(CHUNK_SIZE - 1) THEN "undefined"
    ELSE GenBlock(chunk.cx, chunk.cz, chunk.trees, lx, y, lz)

\* chunk[lx][y][lz] = block
ChunkStore(chunk, lx, y, lz, block) ==
    IF lx \notin 0..(CHUNK_SIZE - 1) THEN chunk
    ELSE IF /\ lz \in 0..(CHUNK_SIZE - 1)
            /\ GenBlock(chunk.cx, chunk.cz, chunk.trees, lx, y, lz) = block
        THEN [chunk EXCEPT !.edits =
                [k \in (DOMAIN chunk.edits) \ {<<lx, y, lz>>} |-> chunk.edits[k]]]
    ELSE [chunk EXCEPT !.edits =
                [k \in (DOMAIN chunk.edits) \cup {<<lx, y, lz>>} |->
                    IF k = <<lx, y, lz>> THEN block ELSE chunk.edits[k]]]

\* ------------------------------------------------------------------------
\* World store

getChunkKey(chunkX, chunkZ) == ToString(chunkX) \o "," \o ToString(chunkZ)

\* x / CHUNK_SIZE truncated towards zero.
ChunkCoordTrunc(x) == IF x >= 0 THEN x \div CHUNK_SIZE ELSE -((-x) \div CHUNK_SIZE)
\* Math.floor(x / CHUNK_SIZE)
ChunkCoord(x) == FloorDiv(x, CHUNK_SIZE)

\* x % CHUNK_SIZE alone, which keeps the sign of x.
LocalIndexRem(x) == JsRem(x, CHUNK_SIZE)
\* ((x % CHUNK_SIZE) + CHUNK_SIZE) % CHUNK_SIZE
LocalIndex(x) == JsRem(JsRem(x, CHUNK_SIZE) + CHUNK_SIZE, CHUNK_SIZE)

\* worldRef.current.set(key, generateTerrain(..)) without the has(key) test.
MaterializeAlways(w, draw, x, z) ==
    [k \in (DOMAIN w) \cup {getChunkKey(ChunkCoord(x), ChunkCoord(z))} |->
        IF k = getChunkKey(ChunkCoord(x), ChunkCoord(z))
        THEN generateTerrain(ChunkCoord(x), ChunkCoord(z), draw)
        ELSE w[k]]
\* if (!worldRef.current.has(key)) worldRef.current.set(key, generateTerrain(..))
Materialize(w, draw, x, z) ==
    LET key == getChunkKey(ChunkCoord(x), ChunkCoord(z))
    IN  IF key \in DOMAIN w THEN w
        ELSE [k \in (DOMAIN w) \cup {key} |->
                IF k = key THEN generateTerrain(ChunkCoord(x), ChunkCoord(z), draw)
                ELSE w[k]]

\* chunk[localX][y][localZ] of the chunk of (x, z), resident in w.
BlockIn(w, x, y, z) ==
    ChunkCell(w[getChunkKey(ChunkCoord(x), ChunkCoord(z))], LocalIndex(x), y, LocalIndex(z))

\* getBlock: the world it leaves and the block type it returns.
GetIn(w1, x, y, z) ==
    [world |-> w1,
     type |-> IF y < 0 \/ y >= WORLD_HEIGHT THEN "air" ELSE BlockIn(w1, x, y, z)]

getBlock(w, draw, x, y, z) == GetIn(Materialize(w, draw, x, z), x, y, z)

\* setBlock: the world it leaves.
SetIn(w1, key, x, y, z, block) ==
    IF y >= 0 /\ y < WORLD_HEIGHT
    THEN [w1 EXCEPT ![key] = ChunkStore(w1[key], LocalIndex(x), y, LocalIndex(z), block)]
    ELSE w1

\* setBlock that only generates the chunk when it was not resident.
SetNoMaterialize(w, draw, x, y, z, block) ==
    IF getChunkKey(ChunkCoord(x), ChunkCoord(z)) \notin DOMAIN w
    THEN Materialize(w, draw, x, z)
    ELSE SetIn(w, getChunkKey(ChunkCoord(x), ChunkCoord(z)), x, y, z, block)
\* setBlock: the chunk made resident, then the write.
setBlock(w, draw, x, y, z, block) ==
    SetIn(Materialize(w, draw, x, z), getChunkKey(ChunkCoord(x), ChunkCoord(z)), x, y, z, block)

\* What a resident chunk holds at a world coordinate, read without a call.
Peek(w, x, y, z) == BlockIn(w, x, y, z)

Resident(w, x, z) == getChunkKey(ChunkCoord(x), ChunkCoord(z)) \in DOMAIN w

\* ------------------------------------------------------------------------
\* Player, inventory, pick ray.  Positions and speeds are in thousandths of a
\* block, angles in units of 1/Fx radian.

Unit == 10 * 100
HalfPi == 15708
TwoPi == 4 * HalfPi

\* Math.cos / Math.sin of an angle; the clamp value pi/2 of the pitch gives a
\* cosine that no floor in the pick ray can tell from 0.
AngSin(a) ==
    LET r == ((a % TwoPi) + TwoPi) % TwoPi
    IN  IF r = HalfPi THEN Fx
        ELSE IF r = 3 * HalfPi THEN -Fx
        ELSE IF r < HalfPi THEN FxSin(r)
        ELSE IF r < 3 * HalfPi THEN FxSin(2 * HalfPi - r)
        ELSE FxSin(r - TwoPi)

AngCos(a) == AngSin(a + HalfPi)

NULL == "null"

EmptySlot == [type |-> NULL, count |-> 0]
EmptyInventory == [i \in 1..36 |-> EmptySlot]

SpawnPlayer(mode) ==
    [x |-> 8 * Unit, y |-> 45 * Unit, z |-> 8 * Unit, velY |-> 0, angleX |-> 0, angleY |-> 0,
     selectedSlot |-> 0, onGround |-> FALSE, mode |-> mode]

Passable(type) == type = "air" \/ type = "water"

\* dirX, dirY, dirZ of raycast, in units of 1/Fx.
RayDir(p) ==
    [x |-> FxMul(AngCos(p.angleY), AngCos(p.angleX)),
     y |-> -AngSin(p.angleY),
     z |-> FxMul(AngCos(p.angleY), AngSin(p.angleX))]

\* Math.floor(c + d * dist) at dist = k * step, step = 0.1
RayFloor(c, d, k) == FloorDiv(c * Fx + d * (k * (Unit \div 10)), Unit * Fx)

RaySteps == 50

NoHit == [hit |-> FALSE, x |-> 0, y |-> 0, z |-> 0, face |-> 0]

\* The hit raycast returns at step i: the voxel of the sample and the face told
\* from the sample before it.
RayHit(p, dir, i) ==
    [hit |-> TRUE,
     x |-> RayFloor(p.x, dir.x, i), y |-> RayFloor(p.y, dir.y, i), z |-> RayFloor(p.z, dir.z, i),
     face |-> IF RayFloor(p.x, dir.x, i - 1) # RayFloor(p.x, dir.x, i)
                THEN (IF dir.x > 0 THEN 1 ELSE 2)
              ELSE IF RayFloor(p.y, dir.y, i - 1) # RayFloor(p.y, dir.y, i)
                THEN (IF dir.y > 0 THEN 3 ELSE 4)
              ELSE IF RayFloor(p.z, dir.z, i - 1) # RayFloor(p.z, dir.z, i)
                THEN (IF dir.z > 0 THEN 5 ELSE 6)
              ELSE 0]

\* The loop of raycast from step i on; block is what getBlock returned for the
\* sample of step i.
RECURSIVE RayMarch(_, _, _, _, _)
RECURSIVE RayVisit(_, _, _, _, _)
\* A ray that stops at a water voxel as at any block.
RayVisitWet(block, draw, p, dir, i) ==
    IF block.type # "air" THEN [world |-> block.world, hit |-> RayHit(p, dir, i)]
    ELSE RayMarch(block.world, draw, p, dir, i + 1)
RayVisit(block, draw, p, dir, i) ==
    IF ~Passable(block.type) THEN [world |-> block.world, hit |-> RayHit(p, dir, i)]
    ELSE RayMarch(block.world, draw, p, dir, i + 1)

RayMarch(w, draw, p, dir, i) ==
    IF i >= RaySteps THEN [world |-> w, hit |-> NoHit]
    ELSE RayVisit(getBlock(w, draw, RayFloor(p.x, dir.x, i), RayFloor(p.y, dir.y, i),
                           RayFloor(p.z, dir.z, i)),
                  draw, p, dir, i)

\* raycast(): the world it leaves (getBlock materializes) and the hit or NoHit.
raycast(w, draw, p) == RayMarch(w, draw, p, RayDir(p), 0)

faceOffsets ==
    [f \in 0..6 |->
        CASE f = 0 -> <<0, 0, 0>>
          [] f = 1 -> <<1, 0, 0>>
          [] f = 2 -> <<-1, 0, 0>>
          [] f = 3 -> <<0, 1, 0>>
          [] f = 4 -> <<0, -1, 0>>
          [] f = 5 -> <<0, 0, 1>>
          [] f = 6 -> <<0, 0, -1>>]

\* (Math.random() - 0.5) * 0.02
TntKick(rnd) == (rnd - Unit \div 2) \div 50

FUSE == 80

\* An ignition that spawns the entity and leaves the tnt voxel in place.
igniteTNTKeep(w, draw, tnt, x, y, z, rndX, rndZ) ==
    [world |-> Materialize(w, draw, x, z),
     tntEntities |-> Append(tnt, [x |-> x * Unit + Unit \div 2,
                                  y |-> y * Unit + Unit \div 2,
                                  z |-> z * Unit + Unit \div 2,
                                  velX |-> TntKick(rndX), velY |-> Unit \div 5,
                                  velZ |-> TntKick(rndZ), fuse |-> FUSE])]
igniteTNT(w, draw, tnt, x, y, z, rndX, rndZ) ==
    [world |-> setBlock(w, draw, x, y, z, "air"),
     tntEntities |-> Append(tnt, [x |-> x * Unit + Unit \div 2,
                                  y |-> y * Unit + Unit \div 2,
                                  z |-> z * Unit + Unit \div 2,
                                  velX |-> TntKick(rndX), velY |-> Unit \div 5,
                                  velZ |-> TntKick(rndZ), fuse |-> FUSE])]

\* inventory.find(pred): the first index whose slot satisfies it, 0 when none.
FindSlot(inv, Pred(_)) ==
    IF \E i \in 1..Len(inv) : Pred(inv[i])
    THEN CHOOSE i \in 1..Len(inv) : Pred(inv[i]) /\ \A j \in 1..(i - 1) : ~Pred(inv[j])
    ELSE 0

\* PickUp without the count < 64 test of the first find.
PickUpAlways(inv, type) ==
    LET Free(s) == s.type = NULL \/ s.type = type
        e == FindSlot(inv, Free)
    IN  IF e # 0 THEN [inv EXCEPT ![e] = [type |-> type, count |-> inv[e].count + 1]]
        ELSE inv
\* The inventory after breakBlock's survival branch picked up one block.
PickUp(inv, type) ==
    LET Stackable(s) == s.type = type /\ s.count < 64
        Empty(s) == s.type = NULL
        slot == FindSlot(inv, Stackable)
        emptySlot == FindSlot(inv, Empty)
    IN  IF slot # 0 THEN [inv EXCEPT ![slot].count = @ + 1]
        ELSE IF emptySlot # 0 THEN [inv EXCEPT ![emptySlot] = [type |-> type, count |-> 1]]
        ELSE inv

\* A breakBlock that also picks the tnt block up in survival mode.
BreakHitCollect(block, hit, draw, p, inv, tnt, rndX, rndZ) ==
    IF block.type = "tnt"
    THEN igniteTNT(block.world, draw, tnt, hit.x, hit.y, hit.z, rndX, rndZ)
            @@ [inventory |-> IF p.mode = "survival" THEN PickUp(inv, block.type) ELSE inv,
                hit |-> hit, block |-> block.type]
    ELSE [world |-> setBlock(block.world, draw, hit.x, hit.y, hit.z, "air"),
          inventory |-> IF p.mode = "survival" THEN PickUp(inv, block.type) ELSE inv,
          tntEntities |-> tnt, hit |-> hit, block |-> block.type]
\* breakBlock() after raycast returned hit and getBlock returned block for it.
BreakHit(block, hit, draw, p, inv, tnt, rndX, rndZ) ==
    IF block.type = "tnt"
    THEN igniteTNT(block.world, draw, tnt, hit.x, hit.y, hit.z, rndX, rndZ)
            @@ [inventory |-> inv, hit |-> hit, block |-> block.type]
    ELSE [world |-> setBlock(block.world, draw, hit.x, hit.y, hit.z, "air"),
          inventory |-> IF p.mode = "survival" THEN PickUp(inv, block.type) ELSE inv,
          tntEntities |-> tnt, hit |-> hit, block |-> block.type]

BreakRay(rc, draw, p, inv, tnt, rndX, rndZ) ==
    IF ~rc.hit.hit
    THEN [world |-> rc.world, inventory |-> inv, tntEntities |-> tnt, hit |-> rc.hit,
          block |-> "air"]
    ELSE BreakHit(getBlock(rc.world, draw, rc.hit.x, rc.hit.y, rc.hit.z), rc.hit, draw, p, inv,
                  tnt, rndX, rndZ)

\* breakBlock(), run with the player and inventory its closure holds: the world,
\* inventory and entity list it leaves, with the hit of its pick ray and the
\* block it found there.
breakBlock(w, draw, p, inv, tnt, rndX, rndZ) ==
    BreakRay(raycast(w, draw, p), draw, p, inv, tnt, rndX, rndZ)

\* The voxel placeBlock writes for a hit: the hit voxel moved by faceOffsets.
PlaceTarget(hit) ==
    <<hit.x + faceOffsets[hit.face][1], hit.y + faceOffsets[hit.face][2],
      hit.z + faceOffsets[hit.face][3]>>

\* new voxel outside playerBox
OutsidePlayer(t, p) ==
    \/ t[1] < FloorDiv(p.x - 300, Unit) \/ t[1] > FloorDiv(p.x + 300, Unit)
    \/ t[2] < FloorDiv(p.y - 1800, Unit) \/ t[2] > FloorDiv(p.y + 200, Unit)
    \/ t[3] < FloorDiv(p.z - 300, Unit) \/ t[3] > FloorDiv(p.z + 300, Unit)

PlaceRay(rc, t, sel, draw, p, inv) ==
    IF rc.hit.hit /\ sel.type # NULL /\ sel.count > 0 /\ OutsidePlayer(t, p)
    THEN [world |-> setBlock(rc.world, draw, t[1], t[2], t[3], sel.type),
          inventory |->
            IF p.mode = "survival"
            THEN [inv EXCEPT ![p.selectedSlot + 1] =
                    IF sel.count - 1 = 0 THEN [type |-> NULL, count |-> 0]
                    ELSE [type |-> sel.type, count |-> sel.count - 1]]
            ELSE inv,
          hit |-> rc.hit, placed |-> TRUE]
    ELSE [world |-> rc.world, inventory |-> inv, hit |-> rc.hit, placed |-> FALSE]

PlaceCast(rc, draw, p, inv) ==
    PlaceRay(rc, PlaceTarget(rc.hit), inv[p.selectedSlot + 1], draw, p, inv)

\* placeBlock(), run with the player and inventory its closure holds: the world
\* and inventory it leaves, with the hit of its pick ray.
placeBlock(w, draw, p, inv) == PlaceCast(raycast(w, draw, p), draw, p, inv)

\* ------------------------------------------------------------------------
\* One tick of gameLoop: the player updater and the TNT updater.

\* The twelve probes of checkCollision, in the order of the checks array.
CollisionProbes ==
    <<<<-300, -1800, -300>>, <<300, -1800, -300>>, <<-300, -1800, 300>>, <<300, -1800, 300>>,
      <<-300, -900, -300>>, <<300, -900, -300>>, <<-300, -900, 300>>, <<300, -900, 300>>,
      <<-300, 0, -300>>, <<300, 0, -300>>, <<-300, 0, 300>>, <<300, 0, 300>>>>

\* The loop of checkCollision from probe i on; block is what getBlock returned
\* for probe i.
RECURSIVE ProbeFrom(_, _, _, _, _, _)
RECURSIVE ProbeVisit(_, _, _, _, _, _)
ProbeVisit(block, draw, x, y, z, i) ==
    IF ~Passable(block.type) THEN [world |-> block.world, hit |-> TRUE]
    ELSE ProbeFrom(block.world, draw, x, y, z, i + 1)

ProbeFrom(w, draw, x, y, z, i) ==
    IF i > Len(CollisionProbes) THEN [world |-> w, hit |-> FALSE]
    ELSE ProbeVisit(getBlock(w, draw, FloorDiv(x + CollisionProbes[i][1], Unit),
                             FloorDiv(y + CollisionProbes[i][2], Unit),
                             FloorDiv(z + CollisionProbes[i][3], Unit)),
                    draw, x, y, z, i)

checkCollision(w, draw, x, y, z) == ProbeFrom(w, draw, x, y, z, 1)

\* Math.cos(a) * moveSpeed and Math.sin(a) * moveSpeed, to the thousandth.
StepCos(on, a, moveSpeed) == IF on THEN RDiv(AngCos(a) * moveSpeed, Fx) ELSE 0
StepSin(on, a, moveSpeed) == IF on THEN RDiv(AngSin(a) * moveSpeed, Fx) ELSE 0

GRAVITY == 20
JUMP == 150
FLY == 100

MoveSpeed(ks) == IF "shift" \in ks THEN 150 ELSE 100

\* newX and newZ after the four key branches.
KeyX(prev, ks) ==
    prev.x + StepCos("w" \in ks, prev.angleX, MoveSpeed(ks))
           - StepCos("s" \in ks, prev.angleX, MoveSpeed(ks))
           + StepCos("a" \in ks, prev.angleX - HalfPi, MoveSpeed(ks))
           + StepCos("d" \in ks, prev.angleX + HalfPi, MoveSpeed(ks))

KeyZ(prev, ks) ==
    prev.z + StepSin("w" \in ks, prev.angleX, MoveSpeed(ks))
           - StepSin("s" \in ks, prev.angleX, MoveSpeed(ks))
           + StepSin("a" \in ks, prev.angleX - HalfPi, MoveSpeed(ks))
           + StepSin("d" \in ks, prev.angleX + HalfPi, MoveSpeed(ks))

\* A survival branch that stops the player where the collision was found.
SettleNoSnap(c3, newX, fallY, newZ, fallVel, prev, ks) ==
    [world |-> c3.world,
     player |->
        IF ~c3.hit
        THEN [prev EXCEPT !.x = newX, !.y = fallY, !.z = newZ, !.velY = fallVel]
        ELSE [prev EXCEPT !.x = newX, !.y = fallY, !.z = newZ,
                          !.velY = IF fallVel < 0 /\ " " \in ks THEN JUMP ELSE 0]]
\* The survival branch after checkCollision(newX, newY, newZ) returned c3.
Settle(c3, newX, fallY, newZ, fallVel, prev, ks) ==
    [world |-> c3.world,
     player |->
        IF ~c3.hit
        THEN [prev EXCEPT !.x = newX, !.y = fallY, !.z = newZ, !.velY = fallVel]
        ELSE IF fallVel < 0
        THEN [prev EXCEPT !.x = newX, !.y = (FloorDiv(fallY, Unit) + 1) * Unit, !.z = newZ,
                          !.velY = IF " " \in ks THEN JUMP ELSE 0]
        ELSE [prev EXCEPT !.x = newX, !.y = -FloorDiv(-fallY, Unit) * Unit, !.z = newZ,
                          !.velY = 0]]

\* A vertical part whose creative branch tests the new height for a collision
\* as the survival branch does.
VerticalBlocked(w, draw, newX, newZ, prev, ks) ==
    Settle(checkCollision(w, draw, newX,
                          prev.y + (IF " " \in ks THEN FLY ELSE 0)
                                 - (IF "shift" \in ks THEN FLY ELSE 0), newZ),
           newX,
           prev.y + (IF " " \in ks THEN FLY ELSE 0) - (IF "shift" \in ks THEN FLY ELSE 0),
           newZ, 0, prev, {})
\* The vertical part of the updater, with the horizontal position decided.
Vertical(w, draw, newX, newZ, prev, ks) ==
    IF prev.mode = "creative"
    THEN [world |-> w,
          player |-> [prev EXCEPT !.x = newX,
                                  !.y = prev.y + (IF " " \in ks THEN FLY ELSE 0)
                                               - (IF "shift" \in ks THEN FLY ELSE 0),
                                  !.z = newZ, !.velY = 0]]
    ELSE Settle(checkCollision(w, draw, newX, prev.y + prev.velY - GRAVITY, newZ),
                newX, prev.y + prev.velY - GRAVITY, newZ, prev.velY - GRAVITY, prev, ks)

AxisZ(c2, draw, newX, newZ0, prev, ks) ==
    Vertical(c2.world, draw, newX, IF ~c2.hit THEN newZ0 ELSE prev.z, prev, ks)

\* The z test made at the x just accepted instead of at prev.x.
AxisXThenZ(c1, draw, newX0, newZ0, prev, ks) ==
    AxisZ(checkCollision(c1.world, draw, IF ~c1.hit THEN newX0 ELSE prev.x, prev.y, newZ0),
          draw, IF ~c1.hit THEN newX0 ELSE prev.x, newZ0, prev, ks)
AxisX(c1, draw, newX0, newZ0, prev, ks) ==
    AxisZ(checkCollision(c1.world, draw, prev.x, prev.y, newZ0), draw,
          IF ~c1.hit THEN newX0 ELSE prev.x, newZ0, prev, ks)

Moved(w, draw, newX0, newZ0, prev, ks) ==
    AxisX(checkCollision(w, draw, newX0, prev.y, prev.z), draw, newX0, newZ0, prev, ks)

\* The updater passed to setPlayer by gameLoop (desktop branch): the world it
\* leaves and the next player.
PlayerStep(w, draw, prev, ks) == Moved(w, draw, KeyX(prev, ks), KeyZ(prev, ks), prev, ks)

RADIUS == 4

\* The n-th (dx, dy, dz) of explodeTNT's three nested loops.
BlastOffset(n) ==
    LET side == 2 * RADIUS + 1
    IN  <<(n \div (side * side)) - RADIUS, ((n \div side) % side) - RADIUS, (n % side) - RADIUS>>

\* explodeTNT treating a tnt voxel as any other block.
BlastBlockPlain(block, tnt, draw, bx, by, bz, d2, rnd, rndX, rndZ) ==
    IF block.type # "air" /\ 4 * RADIUS * RADIUS * rnd * rnd > Unit * Unit * d2
    THEN [world |-> setBlock(block.world, draw, bx, by, bz, "air"), tntEntities |-> tnt]
    ELSE [world |-> block.world, tntEntities |-> tnt]
\* What explodeTNT does to the voxel (bx, by, bz) at squared distance d2, where
\* getBlock returned block.  rnd is the draw compared with dist / radius * 0.5,
\* in thousandths.
BlastBlock(block, tnt, draw, bx, by, bz, d2, rnd, rndX, rndZ) ==
    IF block.type = "tnt"
    THEN igniteTNT(block.world, draw, tnt, bx, by, bz, rndX, rndZ)
    ELSE IF block.type # "air" /\ 4 * RADIUS * RADIUS * rnd * rnd > Unit * Unit * d2
    THEN [world |-> setBlock(block.world, draw, bx, by, bz, "air"), tntEntities |-> tnt]
    ELSE [world |-> block.world, tntEntities |-> tnt]

\* A blast that reaches every offset of the cube the loops run over.
BlastAtCube(st, draw, bx, by, bz, d2, rnd, rndX, rndZ) ==
    BlastBlock(getBlock(st.world, draw, bx, by, bz), st.tntEntities, draw, bx, by, bz, d2,
               rnd, rndX, rndZ)
BlastAt(st, draw, bx, by, bz, d2, rnd, rndX, rndZ) ==
    IF d2 > RADIUS * RADIUS THEN st
    ELSE BlastBlock(getBlock(st.world, draw, bx, by, bz), st.tntEntities, draw, bx, by, bz, d2,
                    rnd, rndX, rndZ)

BlastCell(st, draw, x, y, z, d, rnd, rndX, rndZ) ==
    BlastAt(st, draw, FloorDiv(x + d[1] * Unit, Unit), FloorDiv(y + d[2] * Unit, Unit),
            FloorDiv(z + d[3] * Unit, Unit), d[1] * d[1] + d[2] * d[2] + d[3] * d[3],
            rnd, rndX, rndZ)

\* The loop iterations lo..hi of explodeTNT, in the order the code runs them;
\* st holds the world and the entity list that the queued igniteTNT updates
\* build.  The range is halved, and the first half (done) is worked out before
\* the second is entered.
RECURSIVE BlastFrom(_, _, _, _, _, _, _, _, _, _)
RECURSIVE BlastOn(_, _, _, _, _, _, _, _, _, _)
BlastOn(done, draw, x, y, z, lo, hi, rnd, rndX, rndZ) ==
    IF Len(done.tntEntities) >= 0
    THEN BlastFrom(done, draw, x, y, z, lo, hi, rnd, rndX, rndZ)
    ELSE done

BlastFrom(st, draw, x, y, z, lo, hi, rnd, rndX, rndZ) ==
    IF lo = hi THEN BlastCell(st, draw, x, y, z, BlastOffset(lo), rnd, rndX, rndZ)
    ELSE BlastOn(BlastFrom(st, draw, x, y, z, lo, (lo + hi) \div 2, rnd, rndX, rndZ),
                 draw, x, y, z, (lo + hi) \div 2 + 1, hi, rnd, rndX, rndZ)

explodeTNT(st, draw, x, y, z, rnd, rndX, rndZ) ==
    BlastFrom(st, draw, x, y, z, 0,
              (2 * RADIUS + 1) * (2 * RADIUS + 1) * (2 * RADIUS + 1) - 1, rnd, rndX, rndZ)

\* velX * 0.8, to the thousandth
Damp(v) == IF v >= 0 THEN (v * 4) \div 5 ELSE -((-v * 4) \div 5)

\* The entity after the ballistic step, where getBlock returned block for the
\* voxel half a block under it.
Landed(block, x, y, z, velY, tnt) ==
    [world |-> block.world,
     tnt |-> IF block.type # "air"
             THEN [x |-> x, y |-> FloorDiv(y, Unit) * Unit + Unit \div 2, z |-> z,
                   velX |-> Damp(tnt.velX), velY |-> 0, velZ |-> Damp(tnt.velZ),
                   fuse |-> tnt.fuse - 1]
             ELSE [x |-> x, y |-> y, z |-> z, velX |-> tnt.velX, velY |-> velY,
                   velZ |-> tnt.velZ, fuse |-> tnt.fuse - 1]]

Flown(w, draw, x, y, z, velY, tnt) ==
    Landed(getBlock(w, draw, FloorDiv(x, Unit), FloorDiv(y - Unit \div 2, Unit),
                    FloorDiv(z, Unit)),
           x, y, z, velY, tnt)

\* The body of prev.forEach for an entity whose fuse has not run out.
TntMove(w, draw, tnt) ==
    Flown(w, draw, tnt.x + tnt.velX, tnt.y + tnt.velY - GRAVITY, tnt.z + tnt.velZ,
          tnt.velY - GRAVITY, tnt)

\* The updater passed to setTntEntities by gameLoop, from the i-th entity of
\* prev on.  updated collects the survivors; st.tntEntities collects the
\* entities ignited by detonations, whose updates React applies after the
\* updater's result; n counts the detonations.
RECURSIVE TntFrom(_, _, _, _, _, _, _, _, _)
RECURSIVE TntMoved(_, _, _, _, _, _, _, _, _, _)
TntMoved(mv, ignited, draw, prev, i, updated, n, rnd, rndX, rndZ) ==
    TntFrom([world |-> mv.world, tntEntities |-> ignited], draw, prev, i + 1,
            Append(updated, mv.tnt), n, rnd, rndX, rndZ)

\* The loop detonating an entity one tick before its fuse runs out.
TntFromEarly(st, draw, prev, i, updated, n, rnd, rndX, rndZ) ==
    IF i > Len(prev)
    THEN [world |-> st.world, tntEntities |-> updated \o st.tntEntities, booms |-> n]
    ELSE IF prev[i].fuse - 1 <= 1
    THEN TntFrom(explodeTNT(st, draw, prev[i].x, prev[i].y, prev[i].z, rnd, rndX, rndZ),
                 draw, prev, i + 1, updated, n + 1, rnd, rndX, rndZ)
    ELSE TntMoved(TntMove(st.world, draw, prev[i]), st.tntEntities, draw, prev, i, updated,
                  n, rnd, rndX, rndZ)
TntFrom(st, draw, prev, i, updated, n, rnd, rndX, rndZ) ==
    IF i > Len(prev)
    THEN [world |-> st.world, tntEntities |-> updated \o st.tntEntities, booms |-> n]
    ELSE IF prev[i].fuse - 1 <= 0
    THEN TntFrom(explodeTNT(st, draw, prev[i].x, prev[i].y, prev[i].z, rnd, rndX, rndZ),
                 draw, prev, i + 1, updated, n + 1, rnd, rndX, rndZ)
    ELSE TntMoved(TntMove(st.world, draw, prev[i]), st.tntEntities, draw, prev, i, updated,
                  n, rnd, rndX, rndZ)

TntStep(w, draw, prev, rnd, rndX, rndZ) ==
    TntFrom([world |-> w, tntEntities |-> <<>>], draw, prev, 1, <<>>, 0, rnd, rndX, rndZ)

\* The two updaters of one gameLoop call, the player's first: the world, player
\* and entity list they leave, and the number of detonations.
TntAfter(ps, draw, prev, rnd, rndX, rndZ) ==
    TntStep(ps.world, draw, prev, rnd, rndX, rndZ) @@ [player |-> ps.player]

gameLoop(w, draw, p, tnt, ks, rnd, rndX, rndZ) ==
    TntAfter(PlayerStep(w, draw, p, ks), draw, tnt, rnd, rndX, rndZ)

\* ------------------------------------------------------------------------
\* The session: the component on a desktop browser (isMobile = false).  A
\* handler's state updates are held in the state variables at once; what the
\* effects captured (eff, loop, frames) changes only when the render that
\* follows runs its effects (Flush).  Updates made in keydown, keyup, mousedown
\* and click handlers are rendered before any other task runs (pending =
\* "sync"); those of frame callbacks, mousemove and pointerlockchange are
\* rendered in a later task (pending = "async").

MaxEvents == 3
MaxTicks == 2

GameModes == {"menu", "playing", "inventory", "creative", "settings"}
PlayerModes == {"survival", "creative"}
KeySet == {"w", " ", "e", "c", "escape", "2"}
MenuKeys == {"escape", "e", "c"}
MouseMoves == {<<785, 0>>, <<0, -800>>}
Buttons == {0, 2}
RndSet == {0, 999}
NoDraw == {0}
SlotClicks == {0, 10}
MenuBlocks == {"tnt", "sand"}
NoTrees == {}

CreativeInventory ==
    [i \in 1..36 |-> IF i <= Len(ALL_BLOCKS) THEN [type |-> ALL_BLOCKS[i], count |-> 64]
                     ELSE EmptySlot]

Max(a, b) == IF a > b THEN a ELSE b
Min(a, b) == IF a < b THEN a ELSE b

\* What last records: the handler, the player and inventory it ran with, the hit
\* of its pick ray and the block concerned, and for startGame whether the world
\* or the entity list held anything.
NoOp == [op |-> "none", p |-> SpawnPlayer("survival"), inv |-> <<>>, hit |-> NoHit,
         block |-> "air", dirty |-> FALSE]

\* The shooter after its component mounted: useState initial values, no frame
\* requested, nothing to render.
NoneNear == [bullets |-> 0, item |-> "none"]

MAX_AMMO == 50

MountedShooter ==
    [gameState |-> "menu", health |-> 100, base |-> 100, ammo |-> MAX_AMMO,
     baseAmmo |-> MAX_AMMO, lastShot |-> FALSE, queue |-> <<>>, effects |-> FALSE,
     heard |-> "menu", heardAmmo |-> MAX_AMMO, heardShot |-> FALSE,
     gameLoop |-> [gameState |-> "menu", near |-> NoneNear],
     frames |-> <<>>, refLive |-> FALSE, ranIn |-> "none", nTicks |-> 0, nShots |-> 0]

Edited(w) == \E k \in DOMAIN w : w[k].edits # <<>>

Done(op) == [NoOp EXCEPT !.op = op]

NoCall == [op |-> "none", x |-> 0, y |-> 0, z |-> 0, block |-> "air", ret |-> "air",
           before |-> <<>>, n |-> 0]

Idle == pending # "sync"

Later == IF pending = "none" THEN "async" ELSE pending

Event == nEvents < MaxEvents /\ nEvents' = nEvents + 1

\* State after the component mounted: useState initial values, both effects
\* run once.
Init ==
    /\ world = <<>> /\ treeDraw = NoTrees /\ call = NoCall /\ touched = {}
    /\ gameMode = "menu"
    /\ player = SpawnPlayer("survival")
    /\ inventory = EmptyInventory
    /\ tntEntities = <<>>
    /\ keys = {}
    /\ isPointerLocked = FALSE /\ lockEl = FALSE /\ lockReq = "none"
    /\ eff = [gameMode |-> "menu", isPointerLocked |-> FALSE, player |-> SpawnPlayer("survival")]
    /\ loop = [gameMode |-> "menu", keys |-> {}]
    /\ frames = <<>> /\ refLive = FALSE
    /\ pending = "none"
    /\ last = NoOp
    /\ booms = 0 /\ nEvents = 0 /\ nTicks = 0
    /\ shooter = MountedShooter

\* startGame(mode) without worldRef.current.clear() and setTntEntities([]).
StartGameNoClear(mode) ==
    /\ Idle /\ Event
    /\ gameMode = "menu"
    /\ inventory' = IF mode = "creative" THEN CreativeInventory ELSE EmptyInventory
    /\ player' = SpawnPlayer(mode)
    /\ gameMode' = "playing"
    /\ pending' = "sync"
    /\ last' = [Done("start") EXCEPT !.p = player, !.inv = inventory,
                                      !.dirty = Edited(world) /\ tntEntities # <<>>]
    /\ booms' = 0
    /\ UNCHANGED <<shooter, world, tntEntities, treeDraw, call, touched, keys, isPointerLocked, lockEl,
                   lockReq, eff, loop, frames, refLive, nTicks>>
\* startGame(mode), from the two buttons of the menu screen.
StartGame(mode) ==
    /\ Idle /\ Event
    /\ gameMode = "menu"
    /\ world' = <<>>
    /\ tntEntities' = <<>>
    /\ inventory' = IF mode = "creative" THEN CreativeInventory ELSE EmptyInventory
    /\ player' = SpawnPlayer(mode)
    /\ gameMode' = "playing"
    /\ pending' = "sync"
    /\ last' = [Done("start") EXCEPT !.p = player, !.inv = inventory,
                                      !.dirty = Edited(world) /\ tntEntities # <<>>]
    /\ booms' = 0
    /\ UNCHANGED <<shooter, treeDraw, call, touched, keys, isPointerLocked, lockEl, lockReq, eff, loop,
                   frames, refLive, nTicks>>

\* The buttons that only call setGameMode: menu -> settings, settings -> menu,
\* inventory or creative -> playing.
ModeButton(to) ==
    /\ Idle /\ Event
    /\ \/ gameMode = "menu" /\ to = "settings"
       \/ gameMode = "settings" /\ to = "menu"
       \/ gameMode \in {"inventory", "creative"} /\ to = "playing"
    /\ gameMode' = to
    /\ pending' = "sync"
    /\ last' = Done("button")
    /\ UNCHANGED <<shooter, storeVars, player, inventory, tntEntities, keys, isPointerLocked, lockEl,
                   lockReq, eff, loop, frames, refLive, booms, nTicks>>

\* onClick of the slot at index in the inventory screen.
SlotClick(index) ==
    /\ Idle /\ Event
    /\ gameMode = "inventory"
    /\ inventory[index + 1].type # NULL
    /\ player' = [player EXCEPT !.selectedSlot = index % 9]
    /\ gameMode' = "playing"
    /\ pending' = "sync"
    /\ last' = Done("slot")
    /\ UNCHANGED <<shooter, storeVars, inventory, tntEntities, keys, isPointerLocked, lockEl, lockReq,
                   eff, loop, frames, refLive, booms, nTicks>>

\* The slot the creative menu fills: inventory.find(s => s.type === null ||
\* s.type === blockType), set to 64 of blockType.
MenuAdd(inv, blockType) ==
    LET Free(s) == s.type = NULL \/ s.type = blockType
        emptySlot == FindSlot(inv, Free)
    IN  IF emptySlot # 0 THEN [inv EXCEPT ![emptySlot] = [type |-> blockType, count |-> 64]]
        ELSE inv

\* onClick of a block of the creative menu.
CreativeAdd(blockType) ==
    /\ Idle /\ Event
    /\ gameMode = "creative"
    /\ inventory' = MenuAdd(inventory, blockType)
    /\ pending' = "sync"
    /\ last' = [Done("add") EXCEPT !.inv = inventory, !.block = blockType]
    /\ UNCHANGED <<shooter, storeVars, gameMode, player, tntEntities, keys, isPointerLocked, lockEl,
                   lockReq, eff, loop, frames, refLive, booms, nTicks>>

\* handleKeyDown, with the gameMode its effect captured.
KeyDown(k) ==
    /\ Idle /\ Event
    /\ IF eff.gameMode = "playing"
       THEN /\ keys' = keys \cup {k}
            /\ gameMode' = CASE k = "escape" -> "menu"
                             [] k = "e" -> "inventory"
                             [] k = "c" -> "creative"
                             [] OTHER -> gameMode
            /\ lockReq' = IF k \in MenuKeys /\ lockEl THEN "exit" ELSE lockReq
            /\ player' = IF k = "2" THEN [player EXCEPT !.selectedSlot = 1] ELSE player
       ELSE /\ gameMode' = IF eff.gameMode \in {"inventory", "creative", "settings"}
                              /\ k \in MenuKeys
                           THEN "playing" ELSE gameMode
            /\ UNCHANGED <<keys, lockReq, player>>
    /\ pending' = "sync"
    /\ last' = Done("keydown")
    /\ UNCHANGED <<shooter, storeVars, inventory, tntEntities, isPointerLocked, lockEl, eff, loop,
                   frames, refLive, booms, nTicks>>

\* handleKeyUp
KeyUp(k) ==
    /\ Idle /\ Event
    /\ k \in keys
    /\ keys' = keys \ {k}
    /\ pending' = "sync"
    /\ last' = Done("keyup")
    /\ UNCHANGED <<shooter, storeVars, gameMode, player, inventory, tntEntities, isPointerLocked,
                   lockEl, lockReq, eff, loop, frames, refLive, booms, nTicks>>

\* handleMouseMove with movementX = mx, movementY = my.
MouseMove(mx, my) ==
    /\ Idle /\ Event
    /\ eff.gameMode = "playing" /\ eff.isPointerLocked
    /\ player' = [player EXCEPT
                    !.angleX = @ + mx * 20,
                    !.angleY = Max(-HalfPi, Min(HalfPi, @ - my * 20))]
    /\ pending' = Later
    /\ last' = Done("mousemove")
    /\ UNCHANGED <<shooter, storeVars, gameMode, inventory, tntEntities, keys, isPointerLocked, lockEl,
                   lockReq, eff, loop, frames, refLive, booms, nTicks>>

\* The draws igniteTNT can make when breakBlock ends on hit: Math.random() is
\* called only for a tnt voxel.
DrawsAt(rc, draw) ==
    IF rc.hit.hit /\ getBlock(rc.world, draw, rc.hit.x, rc.hit.y, rc.hit.z).type = "tnt"
    THEN RndSet \X RndSet ELSE NoDraw \X NoDraw

BreakDraws(w, draw, p) == DrawsAt(raycast(w, draw, p), draw)

Broken(r) ==
    /\ world' = r.world
    /\ inventory' = r.inventory
    /\ tntEntities' = r.tntEntities
    /\ last' = [op |-> "break", p |-> eff.player, inv |-> inventory, hit |-> r.hit,
                block |-> r.block, dirty |-> FALSE]

Placed(r) ==
    /\ world' = r.world
    /\ inventory' = r.inventory
    /\ last' = [op |-> IF r.placed THEN "place" ELSE "noplace", p |-> eff.player,
                inv |-> inventory, hit |-> r.hit,
                block |-> inventory[eff.player.selectedSlot + 1].type, dirty |-> FALSE]

\* handleClick with e.button = button, with what its effect captured.
Click(button) ==
    /\ Idle /\ Event
    /\ eff.gameMode = "playing"
    /\ IF ~eff.isPointerLocked /\ gameMode = "playing"
       THEN /\ lockReq' = "lock"
            /\ last' = Done("lock")
            /\ UNCHANGED <<world, inventory, tntEntities>>
       ELSE IF button = 0
       THEN /\ \E rndK \in BreakDraws(world, treeDraw, eff.player) :
                    Broken(breakBlock(world, treeDraw, eff.player, inventory, tntEntities,
                                      rndK[1], rndK[2]))
            /\ UNCHANGED lockReq
       ELSE /\ Placed(placeBlock(world, treeDraw, eff.player, inventory))
            /\ UNCHANGED <<lockReq, tntEntities>>
    /\ pending' = "sync"
    /\ UNCHANGED <<shooter, treeDraw, call, touched, gameMode, player, keys, isPointerLocked, lockEl,
                   eff, loop, frames, refLive, booms, nTicks>>

\* The browser answers a pointer-lock request or exit and handlePointerLockChange
\* runs; a request for a canvas that has left the document is dropped.
PointerLockChange ==
    /\ Idle
    /\ lockReq # "none"
    /\ lockReq' = "none"
    /\ IF lockReq = "lock" /\ gameMode # "playing"
       THEN UNCHANGED <<lockEl, isPointerLocked, pending>>
       ELSE /\ lockEl' = (lockReq = "lock")
            /\ isPointerLocked' = IF gameMode = "playing" THEN lockEl' ELSE ~lockEl'
            /\ pending' = Later
    /\ last' = Done("lockchange")
    /\ UNCHANGED <<shooter, storeVars, gameMode, player, inventory, tntEntities, keys, eff, loop,
                   frames, refLive, booms, nEvents, nTicks>>

\* The frames left by the clean-up of the scheduling effect:
\* cancelAnimationFrame(animationRef.current)
Cancelled == IF refLive THEN SubSeq(frames, 1, Len(frames) - 1) ELSE frames

\* The render that follows a handler, and its effects: the input effect runs
\* again when gameMode or isPointerLocked changed, the scheduling effect when
\* gameMode or gameLoop (through keys) changed, the draw effect casts its rays
\* from the player's voxel.
Flush ==
    /\ pending # "none"
    /\ pending' = "none"
    /\ eff' = IF gameMode # eff.gameMode \/ isPointerLocked # eff.isPointerLocked
              THEN [gameMode |-> gameMode, isPointerLocked |-> isPointerLocked,
                    player |-> player]
              ELSE eff
    /\ IF gameMode # loop.gameMode \/ keys # loop.keys
       THEN /\ loop' = [gameMode |-> gameMode, keys |-> keys]
            /\ frames' = IF gameMode = "playing" THEN Append(Cancelled, loop') ELSE Cancelled
            /\ refLive' = (gameMode = "playing")
       ELSE UNCHANGED <<loop, frames, refLive>>
    /\ world' = IF gameMode = "playing"
                THEN getBlock(world, treeDraw, FloorDiv(player.x, Unit),
                              FloorDiv(player.y, Unit), FloorDiv(player.z, Unit)).world
                ELSE world
    /\ UNCHANGED <<shooter, treeDraw, call, touched, gameMode, player, inventory, tntEntities, keys,
                   isPointerLocked, lockEl, lockReq, last, booms, nEvents, nTicks>>

\* The draws a tick can make: Math.random() is called only by a detonation.
TickDraws == IF \E j \in 1..Len(tntEntities) : tntEntities[j].fuse <= 1 THEN RndSet ELSE NoDraw

Ticked(g) ==
    /\ world' = g.world
    /\ player' = g.player
    /\ tntEntities' = g.tntEntities
    /\ booms' = booms + g.booms

\* The browser runs the i-th requested frame: gameLoop with what it captured.
\* rnd, rndX, rndZ are the Math.random() draws of this tick, in thousandths.
Frame(i, rnd, rndX, rndZ) ==
    /\ Idle
    /\ i \in 1..Len(frames)
    /\ IF frames[i].gameMode # "playing"
       THEN /\ frames' = SubSeq(frames, 1, i - 1) \o SubSeq(frames, i + 1, Len(frames))
            /\ refLive' = (refLive /\ i # Len(frames))
            /\ last' = Done("skip")
            /\ UNCHANGED <<world, player, tntEntities, booms, pending>>
       ELSE /\ Ticked(gameLoop(world, treeDraw, player, tntEntities, frames[i].keys,
                               rnd, rndX, rndZ))
            /\ frames' = Append(SubSeq(frames, 1, i - 1) \o SubSeq(frames, i + 1, Len(frames)),
                                frames[i])
            /\ refLive' = TRUE
            /\ pending' = Later
            /\ last' = [Done("tick") EXCEPT !.p = player]
    /\ nTicks' = nTicks + 1
    /\ UNCHANGED <<shooter, treeDraw, call, touched, gameMode, inventory, keys, isPointerLocked, lockEl,
                   lockReq, eff, loop, nEvents>>

\* A frame of the session, of which MaxTicks are followed.
Tick(i, rnd, rndX, rndZ) == nTicks < MaxTicks /\ Frame(i, rnd, rndX, rndZ)

Next ==
    \/ \E mode \in PlayerModes : StartGame(mode)
    \/ \E to \in GameModes : ModeButton(to)
    \/ \E index \in SlotClicks : SlotClick(index)
    \/ \E blockType \in MenuBlocks : CreativeAdd(blockType)
    \/ \E k \in KeySet : KeyDown(k)
    \/ \E k \in KeySet : KeyUp(k)
    \/ \E m \in MouseMoves : MouseMove(m[1], m[2])
    \/ \E button \in Buttons : Click(button)
    \/ PointerLockChange
    \/ Flush
    \/ \E i \in 1..Len(frames), rnd \in TickDraws, rndX \in TickDraws, rndZ \in TickDraws :
            Tick(i, rnd, rndX, rndZ)

Spec == Init /\ [][Next]_vars

\* ------------------------------------------------------------------------
\* The session taken up in mid-play: the player has landed on the sand of the
\* spawn column, holds the pointer lock, and the listeners captured the pose
\* and slot given.  Poses, inventories and worlds are ones that play from the
\* spawn leads to.

\* Pitch straight down; pitch 0.5 rad down facing +x, where the ground steps up;
\* pitch 45 degrees down facing -x, over the water of columns 6 and 5.
PlayPoses == {<<0, HalfPi>>, <<0, Fx \div 2>>, <<2 * HalfPi, HalfPi \div 2>>}
PlaySlots == {1}

StackedInventory ==
    [i \in 1..36 |-> IF i = 1 THEN [type |-> "sand", count |-> 63]
                     ELSE IF i = 2 THEN [type |-> "tnt", count |-> 1]
                     ELSE EmptySlot]

FullInventory == [i \in 1..36 |-> [type |-> "sand", count |-> 64]]

PlayInventories(mode) ==
    IF mode = "creative" THEN {CreativeInventory}
    ELSE {EmptyInventory, StackedInventory, FullInventory}

SpawnChunk == Materialize(<<>>, NoTrees, 8, 8)

\* The spawn chunk untouched, and with the sand under the player dug out and a
\* tnt block placed in the hole.
PlayWorlds ==
    {SpawnChunk,
     setBlock(setBlock(SpawnChunk, NoTrees, 8, 33, 8, "air"), NoTrees, 8, 32, 8, "tnt")}

LandedPlayer(mode, pose, slot) ==
    [SpawnPlayer(mode) EXCEPT !.y = 36 * Unit, !.angleX = pose[1], !.angleY = pose[2],
                              !.selectedSlot = slot]

PlayInit ==
    /\ treeDraw = NoTrees /\ call = NoCall /\ touched = {}
    /\ world \in PlayWorlds
    /\ gameMode = "playing"
    /\ \E mode \in PlayerModes, pose \in PlayPoses, slot \in PlaySlots :
            /\ player = LandedPlayer(mode, pose, slot)
            /\ inventory \in PlayInventories(mode)
    /\ tntEntities = <<>>
    /\ keys = {}
    /\ isPointerLocked = TRUE /\ lockEl = TRUE /\ lockReq = "none"
    /\ eff = [gameMode |-> "playing", isPointerLocked |-> TRUE, player |-> player]
    /\ loop = [gameMode |-> "playing", keys |-> {}]
    /\ frames = <<loop>> /\ refLive = TRUE
    /\ pending = "none"
    /\ last = NoOp
    /\ booms = 0 /\ nEvents = 0 /\ nTicks = 0
    /\ shooter = MountedShooter

\* The handlers that dig, build, fill the inventory and restart, with the keys
\* that lead to them; no frame runs meanwhile.
PlayKeys == {"c", "escape"}

PlayNext ==
    \/ \E mode \in PlayerModes : StartGame(mode)
    \/ \E to \in GameModes : ModeButton(to)
    \/ \E blockType \in MenuBlocks : CreativeAdd(blockType)
    \/ \E k \in PlayKeys : KeyDown(k)
    \/ \E button \in Buttons : Click(button)
    \/ PointerLockChange
    \/ Flush

SpecPlay == PlayInit /\ [][PlayNext]_vars

\* ------------------------------------------------------------------------
\* The session from the ignition of a tnt block on: the player stands over the
\* dug-out spawn column, a tnt block at its bottom (FirstTnt) and a second one
\* set at one of SecondTnts, and has just broken the first.  call holds the
\* setBlock that put the second in place; nTicks counts the frames since the
\* ignition.

MaxFuseTicks == 162

FirstTnt == <<8, 32, 8>>

\* Next to the first block; four blocks under it, on the rim of the blast.
SecondTnts == {<<9, 32, 8>>, <<8, 28, 8>>}

DugColumn == setBlock(SpawnChunk, NoTrees, 8, 33, 8, "air")

FirstSet == setBlock(DugColumn, NoTrees, FirstTnt[1], FirstTnt[2], FirstTnt[3], "tnt")

Ignited(r, p, c, before) ==
    /\ world = r.world
    /\ tntEntities = r.tntEntities
    /\ inventory = r.inventory
    /\ player = p
    /\ eff = [gameMode |-> "playing", isPointerLocked |-> TRUE, player |-> p]
    /\ last = [op |-> "break", p |-> p, inv |-> EmptyInventory, hit |-> r.hit,
               block |-> r.block, dirty |-> FALSE]
    /\ call = [op |-> "set", x |-> c[1], y |-> c[2], z |-> c[3], block |-> "tnt",
               ret |-> "air", before |-> before, n |-> 0]

TntInit ==
    /\ treeDraw = NoTrees /\ touched = {}
    /\ \E c \in SecondTnts, k \in {<<0, 999>>, <<999, 0>>} :
            Ignited(breakBlock(setBlock(FirstSet, NoTrees, c[1], c[2], c[3], "tnt"), NoTrees,
                               LandedPlayer("survival", <<0, HalfPi>>, 0), EmptyInventory,
                               <<>>, k[1], k[2]),
                    LandedPlayer("survival", <<0, HalfPi>>, 0), c, FirstSet)
    /\ gameMode = "playing"
    /\ keys = {}
    /\ isPointerLocked = TRUE /\ lockEl = TRUE /\ lockReq = "none"
    /\ loop = [gameMode |-> "playing", keys |-> {}]
    /\ frames = <<loop>> /\ refLive = TRUE
    /\ pending = "none"
    /\ booms = 0 /\ nEvents = 0 /\ nTicks = 0
    /\ shooter = MountedShooter

\* A frame of the session, of which MaxFuseTicks are followed.
FuseTick(i, rnd, rndX, rndZ) == nTicks < MaxFuseTicks /\ Frame(i, rnd, rndX, rndZ)

\* The draws followed through a detonation: every block in reach spared and the
\* ignited block kicked towards -x and +z, or every block destroyed and the
\* kick reversed.
BlastDraws ==
    IF TickDraws = NoDraw THEN {<<0, 0, 0>>} ELSE {<<0, 0, 999>>, <<999, 999, 0>>}

TntNext ==
    \/ \E i \in 1..Len(frames), d \in BlastDraws : FuseTick(i, d[1], d[2], d[3])
    \/ Flush

SpecTnt == TntInit /\ [][TntNext]_vars

\* A tnt block set into the top layer of the water of column (6, 8), from the
\* side of a sand block put on the shore; water lies under it.
ShoreSet == setBlock(SpawnChunk, NoTrees, 7, 34, 8, "sand")

WaterTnt == <<6, 34, 8>>

\* The state right after breakBlock ignited that block, hit from the spawn
\* column looking west and 45 degrees down.
SplashInit ==
    /\ treeDraw = NoTrees /\ touched = {}
    /\ \E k \in {<<0, 999>>, <<999, 0>>} :
            Ignited(breakBlock(setBlock(ShoreSet, NoTrees, WaterTnt[1], WaterTnt[2],
                                        WaterTnt[3], "tnt"),
                               NoTrees,
                               LandedPlayer("survival", <<2 * HalfPi, HalfPi \div 2>>, 0),
                               EmptyInventory, <<>>, k[1], k[2]),
                    LandedPlayer("survival", <<2 * HalfPi, HalfPi \div 2>>, 0), WaterTnt,
                    ShoreSet)
    /\ gameMode = "playing"
    /\ keys = {}
    /\ isPointerLocked = TRUE /\ lockEl = TRUE /\ lockReq = "none"
    /\ loop = [gameMode |-> "playing", keys |-> {}]
    /\ frames = <<loop>> /\ refLive = TRUE
    /\ pending = "none"
    /\ booms = 0 /\ nEvents = 0 /\ nTicks = 0
    /\ shooter = MountedShooter

MaxSplashTicks == 40

\* A frame of the session, of which MaxSplashTicks are followed: the flight
\* and the landing of the entity, well before its fuse runs out.
SplashTick(i) == nTicks < MaxSplashTicks /\ Frame(i, 0, 0, 0)

SplashNext ==
    \/ \E i \in 1..Len(frames) : SplashTick(i)
    \/ Flush

SpecSplash == SplashInit /\ [][SplashNext]_vars

\* ------------------------------------------------------------------------
\* A chain of detonations: beside the first block, ignited by a break, tnt is
\* buried at (9,32,8) and (10,32,8), both in reach of the first blast, at
\* (13,32,8), out of its reach and in reach of theirs, and at (8,31,8) under
\* the first block, where the player's pick ray ends once that one is gone.

ChainTnts == <<<<9, 32, 8>>, <<10, 32, 8>>, <<13, 32, 8>>, <<8, 31, 8>>>>

RECURSIVE Laid(_, _, _)
Laid(w, cells, i) ==
    IF i > Len(cells) THEN w
    ELSE Laid(setBlock(w, NoTrees, cells[i][1], cells[i][2], cells[i][3], "tnt"), cells, i + 1)

ChainSet == Laid(FirstSet, ChainTnts, 1)

ChainInit ==
    /\ treeDraw = NoTrees /\ touched = {}
    /\ \E k \in {<<0, 999>>, <<999, 0>>} :
            Ignited(breakBlock(ChainSet, NoTrees, LandedPlayer("survival", <<0, HalfPi>>, 0),
                               EmptyInventory, <<>>, k[1], k[2]),
                    LandedPlayer("survival", <<0, HalfPi>>, 0), ChainTnts[Len(ChainTnts)],
                    FirstSet)
    /\ gameMode = "playing"
    /\ keys = {}
    /\ isPointerLocked = TRUE /\ lockEl = TRUE /\ lockReq = "none"
    /\ loop = [gameMode |-> "playing", keys |-> {}]
    /\ frames = <<loop>> /\ refLive = TRUE
    /\ pending = "none"
    /\ booms = 0 /\ nEvents = 0 /\ nTicks = 0
    /\ shooter = MountedShooter

MaxChainTicks == 162

\* The frames before which a left click is followed: the one of the first
\* detonation and the one after it.
ChainClickTicks == {FUSE - 1, FUSE}

ChainTick(i, rnd, rndX, rndZ) == nTicks < MaxChainTicks /\ Frame(i, rnd, rndX, rndZ)

ChainClick == nTicks \in ChainClickTicks /\ Click(0)

ChainNext ==
    \/ \E i \in 1..Len(frames), d \in BlastDraws : ChainTick(i, d[1], d[2], d[3])
    \/ ChainClick
    \/ Flush

SpecChain == ChainInit /\ [][ChainNext]_vars

\* ------------------------------------------------------------------------
\* Walking, flying and falling: the session from a state in mid-play with a set
\* of keys held, followed through the frames only.

MaxMoveTicks == 12

\* Where the player stands on the generated terrain, as <<x, y, z, angleX>>: on
\* open ground facing +x; in front of the step up at x = 11 facing it; on the
\* column (9, 4) walking towards the higher column (10, 3) that it touches by a
\* corner only; over the edge of the lower, flooded column (6, 8) facing -x.
MovePoses ==
    {<<8 * Unit, 36 * Unit, 8 * Unit, 0>>,
     <<10500, 36 * Unit, 8 * Unit, 0>>,
     <<9650, 36 * Unit, 4350, -(HalfPi \div 2)>>,
     <<6650, 36 * Unit, 8 * Unit, 2 * HalfPi>>}

MoveKeys == {{}, {" "}, {"w"}, {"w", " "}}

\* The spawn chunk untouched, and with a stone block one voxel above the head
\* of a player standing at the spawn column.
MoveWorlds == {SpawnChunk, setBlock(SpawnChunk, NoTrees, 8, 37, 8, "stone")}

\* A pit two blocks deep dug over the columns (9..10, 3..4); the top block of
\* column (10, 3), at y = 34, is left hanging over its corner.
RECURSIVE Dug(_, _)
Dug(w, cells) ==
    IF cells = {} THEN w
    ELSE LET c == CHOOSE c \in cells : TRUE
         IN  Dug(setBlock(w, NoTrees, c[1], c[2], c[3], "air"), cells \ {c})

PitWorld == Dug(SpawnChunk, (9..10) \X (32..33) \X (3..4))

\* On the floor of the pit, in column (9, 4), facing the overhanging corner.
PitPose == <<9650, 34 * Unit, 4350, -(HalfPi \div 2)>>

\* The states a run starts from, as <<world, pose, mode>>.
MoveStarts ==
    (MoveWorlds \X MovePoses \X PlayerModes) \cup {<<PitWorld, PitPose, "survival">>}

MovingPlayer(mode, pose) ==
    [SpawnPlayer(mode) EXCEPT !.x = pose[1], !.y = pose[2], !.z = pose[3],
                              !.angleX = pose[4]]

MoveInit ==
    /\ treeDraw = NoTrees /\ call = NoCall /\ touched = {}
    /\ \E st \in MoveStarts : world = st[1] /\ player = MovingPlayer(st[3], st[2])
    /\ gameMode = "playing"
    /\ inventory = IF player.mode = "creative" THEN CreativeInventory ELSE EmptyInventory
    /\ tntEntities = <<>>
    /\ keys \in MoveKeys
    /\ isPointerLocked = TRUE /\ lockEl = TRUE /\ lockReq = "none"
    /\ eff = [gameMode |-> "playing", isPointerLocked |-> TRUE, player |-> player]
    /\ loop = [gameMode |-> "playing", keys |-> keys]
    /\ frames = <<loop>> /\ refLive = TRUE
    /\ pending = "none"
    /\ last = NoOp
    /\ booms = 0 /\ nEvents = 0 /\ nTicks = 0
    /\ shooter = MountedShooter

\* A frame of the session, of which MaxMoveTicks are followed.
MoveTick(i) == nTicks < MaxMoveTicks /\ Frame(i, 0, 0, 0)

MoveNext ==
    \/ \E i \in 1..Len(frames) : MoveTick(i)
    \/ Flush

SpecMove == MoveInit /\ [][MoveNext]_vars

\* ------------------------------------------------------------------------
\* The shooter (src/pages/Index.tsx): its session state and its frame loop.
\* shooter holds
\*   gameState, health, ammo  the committed useState values (health and ammo of
\*                      player); lastShot tells whether a shot set lastShot;
\*   queue, base, baseAmmo  the updates to player that wait for the render of
\*                      the frame callbacks' updates, and the health and ammo
\*                      they apply to;
\*   effects            a render was committed whose effects have not run yet;
\*   heard, heardAmmo, heardShot  what the listeners of the input effect
\*                      captured: gameState, and through shoot the ammo of
\*                      player and whether lastShot was set;
\*   gameLoop           what the gameLoop of the last render captured: gameState,
\*                      and near: the number of enemy bullets of its bullets list
\*                      within 0.5 of its player and the kind of an item of its
\*                      items list within 0.7 (positions are not followed);
\*   nShots             the shots fired, of which MaxShots are followed.
\* The player keeps the first weapon (ammoPerShot 1).
\*   frames, refLive    the requested animation frames with what their callback
\*                      captured; animationRef.current names the last of them;
\*   ranIn              the committed gameState when the body of gameLoop last ran.
\* Updates made in click and keydown handlers are rendered, and the effects of
\* that render run, before any other task; the updates of a frame callback are
\* rendered in a later task and the effects of that render in one later still.

MaxShooterTicks == 4
MaxShots == 3

NearSet == {NoneNear, [bullets |-> 5, item |-> "none"], [bullets |-> 0, item |-> "health"],
            [bullets |-> 0, item |-> "ammo"]}

ShooterCancelled(s) == IF s.refLive THEN SubSeq(s.frames, 1, Len(s.frames) - 1) ELSE s.frames

\* The clean-up and the body of the scheduling effect, and the input effect.
RunEffects(s) ==
    [s EXCEPT !.frames = IF s.gameState = "playing"
                         THEN Append(ShooterCancelled(s), s.gameLoop)
                         ELSE ShooterCancelled(s),
              !.refLive = (s.gameState = "playing"),
              !.heard = s.gameState,
              !.heardAmmo = IF s.gameState # s.heard THEN s.ammo ELSE @,
              !.heardShot = IF s.gameState # s.heard THEN s.lastShot ELSE @,
              !.effects = FALSE]

\* Effects left over from an earlier render run before the next render starts.
Flushed(s) == IF s.effects THEN RunEffects(s) ELSE s

Committed(s, to, near) ==
    RunEffects([s EXCEPT !.gameState = to, !.gameLoop = [gameState |-> to, near |-> near]])

\* setGameState(to) in a click or keydown handler, its render and effects.
SetGameState(s, to) == Committed(Flushed(s), to, s.gameLoop.near)

\* initGame(): the sync render applies its player update to the committed
\* health at once; behind queued updates it is applied again when they are.
\* Of several in a row the queue keeps one, their effect being that of one.
initGame(s) ==
    IF s.queue = <<>> THEN [s EXCEPT !.health = 100, !.base = 100]
    ELSE IF s.queue[Len(s.queue)] = "init" THEN [s EXCEPT !.health = 100]
    ELSE [s EXCEPT !.health = 100, !.queue = Append(@, "init")]

\* startGame, from the menu and the game-over screen.
ShooterStart ==
    /\ shooter.gameState \in {"menu", "gameOver"}
    /\ shooter' = Committed(Flushed(initGame(shooter)), "playing", NoneNear)
    /\ UNCHANGED <<storeVars, voxelVars>>

\* The buttons that only call setGameState.
ShooterButton(to) ==
    /\ \/ shooter.gameState = "menu" /\ to \in {"shop", "settings"}
       \/ shooter.gameState \in {"shop", "settings", "gameOver"} /\ to = "menu"
       \/ shooter.gameState = "paused" /\ to \in {"playing", "menu"}
    /\ shooter' = SetGameState(shooter, to)
    /\ UNCHANGED <<storeVars, voxelVars>>

\* handleKeyDown with e.key = 'Escape'
ShooterEscape ==
    /\ shooter.heard = "playing"
    /\ shooter' = SetGameState(shooter, "paused")
    /\ UNCHANGED <<storeVars, voxelVars>>

\* shoot(), as the click listener holds it, once its two tests passed: the
\* sync render applies the player update to the committed ammo at once; behind
\* queued updates it is applied again when they are.
Shot(s) ==
    IF s.queue = <<>>
    THEN [s EXCEPT !.ammo = @ - 1, !.baseAmmo = @ - 1, !.lastShot = TRUE, !.nShots = @ + 1]
    ELSE [s EXCEPT !.ammo = @ - 1, !.queue = Append(@, "shot"), !.lastShot = TRUE,
                   !.nShots = @ + 1]

\* handleClick; late tells whether fireRate ms have passed since the lastShot
\* that shoot captured, which they have when it captured none.
ShooterClick(late) ==
    /\ shooter.heard = "playing"
    /\ shooter.nShots < MaxShots
    /\ late \/ ~shooter.heardShot
    /\ shooter.heardAmmo >= 1
    /\ shooter' = Committed(Shot(Flushed(shooter)), Flushed(shooter).gameState,
                            shooter.gameLoop.near)
    /\ UNCHANGED <<storeVars, voxelVars>>

\* The player updates one call of gameLoop queues: the move, one hit for each
\* enemy bullet within 0.5, and the gain of a health or ammo item within 0.7.
Hits(n) == [j \in 1..n |-> "hit"]

Gains(item) == IF item \in {"health", "ammo"} THEN <<item>> ELSE <<>>

Without(frs, i) == SubSeq(frs, 1, i - 1) \o SubSeq(frs, i + 1, Len(frs))

\* The browser runs the i-th requested frame: gameLoop with what it captured.
ShooterFrame(i) ==
    /\ shooter.nTicks < MaxShooterTicks
    /\ i \in 1..Len(shooter.frames)
    /\ shooter' =
          IF shooter.frames[i].gameState # "playing"
          THEN [shooter EXCEPT !.frames = Without(@, i),
                               !.refLive = (@ /\ i # Len(shooter.frames)),
                               !.nTicks = @ + 1]
          ELSE [shooter EXCEPT !.queue = (@ \o <<"move">>)
                                            \o Hits(shooter.frames[i].near.bullets)
                                            \o Gains(shooter.frames[i].near.item),
                               !.frames = Append(Without(@, i), shooter.frames[i]),
                               !.refLive = TRUE,
                               !.ranIn = shooter.gameState,
                               !.nTicks = @ + 1]
    /\ UNCHANGED <<storeVars, voxelVars>>

\* The queued player updates applied in order from health h on: the health
\* they leave, and whether one of them called setGameState('gameOver').
RECURSIVE Drain(_, _, _, _)
Drain(q, i, h, over) ==
    IF i > Len(q) THEN [health |-> h, over |-> over]
    ELSE IF q[i] = "init" THEN Drain(q, i + 1, 100, over)
    ELSE IF q[i] = "hit" THEN Drain(q, i + 1, Max(0, h - 10), over \/ h - 10 <= 0)
    ELSE IF q[i] = "health" THEN Drain(q, i + 1, Min(100, h + 25), over)
    ELSE Drain(q, i + 1, h, over)

\* The ammo the queued updates leave from ammo a on: a shot takes ammoPerShot,
\* an ammo item gives 20 up to maxAmmo.
RECURSIVE DrainAmmo(_, _, _)
DrainAmmo(q, i, a) ==
    IF i > Len(q) THEN a
    ELSE IF q[i] = "shot" THEN DrainAmmo(q, i + 1, a - 1)
    ELSE IF q[i] = "ammo" THEN DrainAmmo(q, i + 1, Min(MAX_AMMO, a + 20))
    ELSE DrainAmmo(q, i + 1, a)

Rendered(s, d, near) ==
    [s EXCEPT !.health = d.health, !.base = d.health, !.queue = <<>>,
              !.ammo = DrainAmmo(s.queue, 1, s.baseAmmo),
              !.baseAmmo = DrainAmmo(s.queue, 1, s.baseAmmo),
              !.gameState = IF d.over THEN "gameOver" ELSE @,
              !.gameLoop = [gameState |-> IF d.over THEN "gameOver" ELSE s.gameState,
                            near |-> near],
              !.effects = TRUE]

\* The render of the updates frame callbacks queued; near is what the new
\* gameLoop captures.
ShooterRender(near) ==
    /\ shooter.queue # <<>>
    /\ shooter' = Rendered(Flushed(shooter), Drain(shooter.queue, 1, shooter.base, FALSE), near)
    /\ UNCHANGED <<storeVars, voxelVars>>

\* The effects of that render.
ShooterEffects ==
    /\ shooter.effects
    /\ shooter' = RunEffects(shooter)
    /\ UNCHANGED <<storeVars, voxelVars>>

\* The session variables while the voxel game sits in its menu.
SessionIdle ==
    /\ gameMode = "menu"
    /\ player = SpawnPlayer("survival")
    /\ inventory = EmptyInventory
    /\ tntEntities = <<>>
    /\ keys = {}
    /\ isPointerLocked = FALSE /\ lockEl = FALSE /\ lockReq = "none"
    /\ eff = [gameMode |-> "menu", isPointerLocked |-> FALSE, player |-> SpawnPlayer("survival")]
    /\ loop = [gameMode |-> "menu", keys |-> {}]
    /\ frames = <<>> /\ refLive = FALSE
    /\ pending = "none"
    /\ last = NoOp
    /\ booms = 0 /\ nEvents = 0 /\ nTicks = 0
    /\ shooter = MountedShooter

ShooterStates == {"menu", "playing", "paused", "gameOver", "shop", "settings"}

ShooterInit ==
    /\ world = <<>> /\ treeDraw = NoTrees /\ call = NoCall /\ touched = {}
    /\ SessionIdle

ShooterNext ==
    \/ ShooterStart
    \/ \E to \in ShooterStates : ShooterButton(to)
    \/ ShooterEscape
    \/ \E i \in 1..Len(shooter.frames) : ShooterFrame(i)
    \/ \E near \in NearSet : ShooterRender(near)
    \/ ShooterEffects

SpecShooter == ShooterInit /\ [][ShooterNext]_vars

\* The shooter taken up in mid-play, 48 shots after the start of a game: with
\* the listeners of that start, or with those of a pause and resume made since.
LowAmmo == 2

ShotDown(held) ==
    [Committed(initGame(MountedShooter), "playing", NoneNear)
        EXCEPT !.ammo = LowAmmo, !.baseAmmo = LowAmmo, !.lastShot = TRUE,
               !.heardAmmo = IF held THEN MAX_AMMO ELSE LowAmmo,
               !.heardShot = ~held]

AmmoInit ==
    /\ world = <<>> /\ treeDraw = NoTrees /\ call = NoCall /\ touched = {}
    /\ gameMode = "menu"
    /\ player = SpawnPlayer("survival")
    /\ inventory = EmptyInventory
    /\ tntEntities = <<>>
    /\ keys = {}
    /\ isPointerLocked = FALSE /\ lockEl = FALSE /\ lockReq = "none"
    /\ eff = [gameMode |-> "menu", isPointerLocked |-> FALSE, player |-> SpawnPlayer("survival")]
    /\ loop = [gameMode |-> "menu", keys |-> {}]
    /\ frames = <<>> /\ refLive = FALSE
    /\ pending = "none"
    /\ last = NoOp
    /\ booms = 0 /\ nEvents = 0 /\ nTicks = 0
    /\ \E held \in BOOLEAN : shooter = ShotDown(held)

AmmoNext ==
    \/ ShooterNext
    \/ \E late \in BOOLEAN : ShooterClick(late)

SpecAmmo == AmmoInit /\ [][AmmoNext]_vars

\* ------------------------------------------------------------------------
\* The store driven call by call: getBlock and setBlock on coordinates drawn
\* from StoreXs x StoreYs x StoreZs, as the handlers of the session call them.

MaxStoreCalls == 2

StoreXs == {-17, -1, 15}
StoreYs == {-1, 33, 64}
StoreZs == {-1, 15}
StoreBlocks == {"air", "tnt"}
TreeDraws == {{}, {<<8, 8>>}}

StoreInit ==
    /\ world = <<>>
    /\ treeDraw \in TreeDraws
    /\ call = NoCall
    /\ touched = {}
    /\ SessionIdle

StoreGet(x, y, z) ==
    /\ call.n < MaxStoreCalls
    /\ LET r == getBlock(world, treeDraw, x, y, z)
       IN  /\ world' = r.world
           /\ call' = [op |-> "get", x |-> x, y |-> y, z |-> z, block |-> "air",
                       ret |-> r.type, before |-> world, n |-> call.n + 1]
    /\ touched' = touched \cup {<<ChunkCoord(x), ChunkCoord(z)>>}
    /\ UNCHANGED <<treeDraw, sessionVars>>

StoreSet(x, y, z, block) ==
    /\ call.n < MaxStoreCalls
    /\ world' = setBlock(world, treeDraw, x, y, z, block)
    /\ call' = [op |-> "set", x |-> x, y |-> y, z |-> z, block |-> block,
                ret |-> "air", before |-> world, n |-> call.n + 1]
    /\ touched' = touched \cup {<<ChunkCoord(x), ChunkCoord(z)>>}
    /\ UNCHANGED <<treeDraw, sessionVars>>

\* worldRef.current.clear() of startGame
StoreStart ==
    /\ call.op # "clear"
    /\ world' = <<>>
    /\ treeDraw' \in TreeDraws
    /\ call' = [NoCall EXCEPT !.op = "clear", !.before = world, !.n = call.n]
    /\ touched' = {}
    /\ UNCHANGED sessionVars

StoreNext ==
    \/ \E x \in StoreXs, y \in StoreYs, z \in StoreZs : StoreGet(x, y, z)
    \/ \E x \in StoreXs, y \in StoreYs, z \in StoreZs, b \in StoreBlocks : StoreSet(x, y, z, b)
    \/ StoreStart

SpecStore == StoreInit /\ [][StoreNext]_vars

\* Generation: chunks are made resident by a read at their middle column, and
\* the world is cleared and generated again under new draws.
GenChunks == GrassChunks \cup {<<0, 0>>}

GenNext ==
    \/ \E c \in GenChunks, y \in StoreYs :
            StoreGet(c[1] * CHUNK_SIZE + 8, y, c[2] * CHUNK_SIZE + 8)
    \/ StoreStart

SpecGen == StoreInit /\ [][GenNext]_vars

\* The heights at which the frame of a store call is observed.
ProbeYs == {0, 33, 63}

\* C1: setBlock(x,y,z,v) with 0 <= y < 64 immediately followed by getBlock(x,y,z)
\* returns v, at negative coordinates too, whether or not the chunk was resident.
C1_RoundTrip ==
    (call.op = "set" /\ call.y >= 0 /\ call.y < WORLD_HEIGHT)
        => getBlock(world, treeDraw, call.x, call.y, call.z).type = call.block

C1_Witness ==
    /\ call.op = "set" /\ call.x < 0 /\ call.z < 0 /\ call.y = 33
    /\ call.block = "tnt"
    /\ ~Resident(call.before, call.x, call.z)
    /\ getBlock(world, treeDraw, call.x, call.y, call.z).type = "tnt"

\* C2: getBlock with y < 0 or y >= 64 returns air and leaves the set of resident
\* chunks as it was.
C2_NoMaterialize ==
    (call.op = "get" /\ (call.y < 0 \/ call.y >= WORLD_HEIGHT))
        => (call.ret = "air" /\ DOMAIN world = DOMAIN call.before)

\* C10: setBlock changes what no other coordinate of a resident chunk reads, and
\* with y outside [0,64) it changes no voxel at all.
C10_Frame ==
    call.op = "set" =>
        \A x \in StoreXs, y \in ProbeYs, z \in StoreZs :
            (/\ Resident(call.before, x, z)
             /\ (<<x, y, z>> # <<call.x, call.y, call.z>>
                    \/ call.y < 0 \/ call.y >= WORLD_HEIGHT))
            => Peek(world, x, y, z) = Peek(call.before, x, y, z)

C10_Witness ==
    /\ call.op = "set" /\ call.x = -1 /\ call.y = 33 /\ call.z = -1
    /\ call.block = "tnt"
    /\ Resident(call.before, 15, -1)
    /\ Peek(world, -1, 33, -1) = "tnt"
    /\ Peek(call.before, 15, 33, -1) # "air"
    /\ Peek(world, 15, 33, -1) = Peek(call.before, 15, 33, -1)

Slots(inv) == 1..Len(inv)

RECURSIVE SumCounts(_, _)
SumCounts(inv, i) == IF i > Len(inv) THEN 0 ELSE inv[i].count + SumCounts(inv, i + 1)

\* The total item count of an inventory.
Total(inv) == SumCounts(inv, 1)

\* C3: whatever startGame, break, place and creative-menu add did, every slot
\* has type = null exactly when count = 0, and 0 <= count <= 64.
C3_SlotInvariant ==
    \A i \in Slots(inventory) :
        /\ (inventory[i].type = NULL) <=> (inventory[i].count = 0)
        /\ inventory[i].count >= 0 /\ inventory[i].count <= 64

\* A survival place used up the last tnt of its slot, which is empty now.
C3_Witness ==
    /\ last.op = "place" /\ last.p.mode = "survival"
    /\ last.inv[last.p.selectedSlot + 1] = [type |-> "tnt", count |-> 1]
    /\ inventory[last.p.selectedSlot + 1] = EmptySlot

\* C6: the face a pick ray reports has a placement offset that points against
\* the ray's travel on the axis it crossed: (-1,0,0) for +x travel across an x
\* boundary, and likewise for -x, +y, -y, +z, -z.
C6_EntryFace ==
    (last.op \in {"break", "place", "noplace"} /\ last.hit.hit /\ last.hit.face # 0) =>
        faceOffsets[last.hit.face][1] * RayDir(last.p).x
            + faceOffsets[last.hit.face][2] * RayDir(last.p).y
            + faceOffsets[last.hit.face][3] * RayDir(last.p).z < 0

\* C7: a survival break whose pick ray hits a solid voxel that is not tnt leaves
\* that voxel air and the total item count one higher.
C7_BreakAddsOne ==
    (last.op = "break" /\ last.p.mode = "survival" /\ last.hit.hit /\ last.block # "tnt") =>
        /\ Peek(world, last.hit.x, last.hit.y, last.hit.z) = "air"
        /\ Total(inventory) = Total(last.inv) + 1

\* C9: right after startGame(mode) the world map and the entity list are empty,
\* the player is at the spawn state in the given mode and the inventory is the
\* starting one of the mode; once the render that follows ran its effects,
\* every resident chunk is as generated and the listeners hold the spawn player.
C9_SessionReset ==
    last.op = "start" =>
        /\ tntEntities = <<>>
        /\ player = SpawnPlayer(player.mode)
        /\ player.x = 8 * Unit /\ player.y = 45 * Unit /\ player.z = 8 * Unit
        /\ player.velY = 0 /\ player.selectedSlot = 0
        /\ inventory = IF player.mode = "creative" THEN CreativeInventory ELSE EmptyInventory
        /\ ~Edited(world)
        /\ pending = "sync" => world = <<>>
        /\ pending = "none" => eff.player = player

C9_Witness ==
    /\ last.op = "start" /\ last.dirty /\ pending = "sync"
    /\ last.inv # EmptyInventory /\ last.inv # CreativeInventory
    /\ player.mode = "survival" /\ world = <<>>

\* C5: from the ignition of a tnt voxel with a second one within radius 4 of
\* the detonation, once FUSE frames ran one detonation has occurred and the
\* second voxel reads air with its entity alive; once 2 * FUSE frames ran both
\* voxels read air, two detonations have occurred and no entity remains.
C5_ChainReaction ==
    /\ (call.block = "tnt" /\ nTicks >= FUSE /\ nTicks < 2 * FUSE) =>
            /\ booms = 1 /\ Len(tntEntities) = 1
            /\ Peek(world, call.x, call.y, call.z) = "air"
    /\ (call.block = "tnt" /\ nTicks >= 2 * FUSE) =>
            /\ Peek(world, FirstTnt[1], FirstTnt[2], FirstTnt[3]) = "air"
            /\ Peek(world, call.x, call.y, call.z) = "air"
            /\ booms = 2
            /\ tntEntities = <<>>

C5_Witness ==
    /\ call.block = "tnt" /\ call.y = FirstTnt[2] - RADIUS
    /\ Peek(call.before, FirstTnt[1], FirstTnt[2], FirstTnt[3]) = "tnt"
    /\ nTicks = 2 * FUSE
    /\ booms = 2 /\ tntEntities = <<>>
    /\ Peek(world, FirstTnt[1], FirstTnt[2], FirstTnt[3]) = "air"
    /\ Peek(world, call.x, call.y, call.z) = "air"

\* C4: while the committed mode is not 'playing' no frame callback is left
\* requested and the body of the tick does not run, and at no moment is more
\* than one frame requested; in the voxel game and in the shooter.
C4_LoopCancelled ==
    /\ (pending # "sync" /\ gameMode # "playing") => frames = <<>>
    /\ Len(frames) <= 1
    /\ shooter.gameState # "playing" => shooter.frames = <<>>
    /\ shooter.ranIn \in {"none", "playing"}
    /\ Len(shooter.frames) <= 1

\* C8: a chunk is resident iff a getBlock or setBlock call since the last start
\* addressed a coordinate that floors into it; a call removes no chunk, and
\* leaves every chunk that was resident as it was, but for the voxel a setBlock
\* writes.
C8_Residency ==
    /\ DOMAIN world = {getChunkKey(c[1], c[2]) : c \in touched}
    /\ call.op \in {"get", "set"} =>
          \A k \in DOMAIN call.before :
              /\ k \in DOMAIN world
              /\ world[k].trees = call.before[k].trees
              /\ (call.op = "get" \/ k # getChunkKey(ChunkCoord(call.x), ChunkCoord(call.z)))
                    => world[k] = call.before[k]
              /\ \A c \in DOMAIN call.before[k].edits :
                    c # <<LocalIndex(call.x), call.y, LocalIndex(call.z)>>
                        => (c \in DOMAIN world[k].edits
                            /\ world[k].edits[c] = call.before[k].edits[c])

C8_Witness ==
    /\ call.op = "get" /\ call.n = 2
    /\ Resident(call.before, call.x, call.z)
    /\ Peek(call.before, call.x, 33, call.z) = "tnt"
    /\ Peek(world, call.x, 33, call.z) = "tnt"
    /\ Cardinality(touched) = 1

\* C11: for the coordinates of a store call the chunk coordinate is
\* floor(x / 16) and the local index lies in [0, 16) with
\* chunk * 16 + local = x; x = -1 is local 15 of chunk -1.
C11_CoordinateWrap ==
    call.op \in {"get", "set"} =>
        \A x \in {call.x, call.z} :
            /\ LocalIndex(x) \in 0..(CHUNK_SIZE - 1)
            /\ ChunkCoord(x) * CHUNK_SIZE + LocalIndex(x) = x
            /\ ChunkCoord(x) * CHUNK_SIZE <= x /\ x < (ChunkCoord(x) + 1) * CHUNK_SIZE
            /\ (x = -1 => (ChunkCoord(x) = -1 /\ LocalIndex(x) = 15))

C11_Witness ==
    /\ call.op = "set" /\ call.x = -1 /\ call.z = -17 + 16 /\ call.y = 33
    /\ call.block = "tnt"
    /\ getChunkKey(-1, -1) \in DOMAIN world
    /\ <<15, 33, 15>> \in DOMAIN world[getChunkKey(-1, -1)].edits

\* C12: in creative mode a tick with only space held raises y by exactly 0.1 and
\* leaves velY at 0 whatever solid voxels are above or around the player, so
\* that after N such ticks y is up by N * 0.1; gravity is never applied in
\* creative mode.
C12_CreativeAscent ==
    player.mode = "creative" =>
        /\ player.velY = 0
        /\ loop.keys = {" "} =>
                /\ player.y = 36 * Unit + nTicks * (Unit \div 10)
                /\ last.op = "tick" =>
                        /\ player.y = last.p.y + Unit \div 10
                        /\ player.x = last.p.x /\ player.z = last.p.z
        /\ (last.op = "tick" /\ " " \notin loop.keys) => player.y = last.p.y

C12_Witness ==
    /\ player.mode = "creative" /\ loop.keys = {" "}
    /\ last.op = "tick" /\ nTicks = 11
    /\ player.x = 8 * Unit /\ player.z = 8 * Unit
    /\ player.y = 37 * Unit + Unit \div 10
    /\ getBlock(world, treeDraw, 8, 37, 8).type = "stone"
    /\ checkCollision(world, treeDraw, player.x, player.y, player.z).hit

\* The terrain layers of a column: the kinds generateTerrain writes below the
\* column's height.
TerrainKinds == {"stone", "dirt", "grass", "sand"}

\* C13: two calls of generateTerrain with the same (chunkX, chunkZ) agree on
\* every column's height and biome class and on every stone, dirt and top-layer
\* voxel at y < height, whatever the draws made for the trees: every chunk that
\* was resident when the world is cleared is generated again, under any draws,
\* with the same voxels below the height of each column.
C13_TerrainDeterministic ==
    call.op = "clear" =>
        \A k \in DOMAIN call.before : \A draw \in TreeDraws :
            LET a == call.before[k]
                b == generateTerrain(a.cx, a.cz, draw)
            IN  \A lx \in 0..(CHUNK_SIZE - 1), lz \in 0..(CHUNK_SIZE - 1) :
                    LET height == TerrainHeight(a.cx * CHUNK_SIZE + lx, a.cz * CHUNK_SIZE + lz)
                        sand == SandBiome(a.cx * CHUNK_SIZE + lx, a.cz * CHUNK_SIZE + lz)
                    IN  /\ \A y \in 0..(height - 1) :
                            /\ GenBlock(a.cx, a.cz, a.trees, lx, y, lz) \in TerrainKinds
                            /\ GenBlock(b.cx, b.cz, b.trees, lx, y, lz)
                                    = GenBlock(a.cx, a.cz, a.trees, lx, y, lz)
                        /\ GenBlock(a.cx, a.cz, a.trees, lx, height - 1, lz)
                                = (IF sand THEN "sand" ELSE "grass")
                        /\ GenBlock(b.cx, b.cz, b.trees, lx, height - 1, lz)
                                = (IF sand THEN "sand" ELSE "grass")

\* The grass chunk was resident with a tree on it, and is generated again
\* without one: the trunk and the leaves differ, the ground does not.
C13_Witness ==
    /\ call.op = "clear"
    /\ getChunkKey(-4, 0) \in DOMAIN call.before
    /\ <<-4, 0>> \in GrassChunks
    /\ call.before[getChunkKey(-4, 0)].trees = {<<8, 8>>}
    /\ treeDraw = {}
    /\ LET a == call.before[getChunkKey(-4, 0)]
           b == generateTerrain(a.cx, a.cz, treeDraw)
           height == TerrainHeight(a.cx * CHUNK_SIZE + 8, a.cz * CHUNK_SIZE + 8)
       IN  /\ GenBlock(a.cx, a.cz, a.trees, 8, height, 8) = "wood"
           /\ GenBlock(b.cx, b.cz, b.trees, 8, height, 8) = "air"
           /\ GenBlock(a.cx, a.cz, a.trees, 7, height + 4, 8) = "leaves"
           /\ GenBlock(b.cx, b.cz, b.trees, 7, height + 4, 8) = "air"
           /\ GenBlock(a.cx, a.cz, a.trees, 8, height - 1, 8) = "grass"
           /\ GenBlock(b.cx, b.cz, b.trees, 8, height - 1, 8) = "grass"

\* The voxel kinds that stop nothing.
NonSolid == {"air", "water"}

\* C14: every collision test and the pick ray treat exactly air and water as
\* non-solid: the player's probe collides exactly when one of its twelve
\* points lies in a voxel of another kind, the pick ray stops at no air or
\* water voxel, and a TNT entity is brought to rest only over a voxel of
\* another kind.
C14_Solidity ==
    /\ checkCollision(world, treeDraw, player.x, player.y, player.z).hit
            <=> \E i \in 1..Len(CollisionProbes) :
                    getBlock(world, treeDraw,
                             FloorDiv(player.x + CollisionProbes[i][1], Unit),
                             FloorDiv(player.y + CollisionProbes[i][2], Unit),
                             FloorDiv(player.z + CollisionProbes[i][3], Unit)).type
                        \notin NonSolid
    /\ LET rc == raycast(world, treeDraw, player)
       IN  rc.hit.hit =>
                getBlock(world, treeDraw, rc.hit.x, rc.hit.y, rc.hit.z).type \notin NonSolid
    /\ \A j \in 1..Len(tntEntities) :
            (/\ booms = 0
             /\ tntEntities[j].fuse < FUSE
             /\ tntEntities[j].velY = 0
             /\ tntEntities[j].y % Unit = Unit \div 2)
                => \E y \in {FloorDiv(tntEntities[j].y, Unit) - 1,
                              FloorDiv(tntEntities[j].y, Unit)} :
                        getBlock(world, treeDraw, FloorDiv(tntEntities[j].x, Unit), y,
                                 FloorDiv(tntEntities[j].z, Unit)).type \notin NonSolid

\* One of the twelve probe points of a player at (x, y, z) lies in a solid voxel.
Blocked(x, y, z) ==
    \E i \in 1..Len(CollisionProbes) :
        getBlock(world, treeDraw, FloorDiv(x + CollisionProbes[i][1], Unit),
                 FloorDiv(y + CollisionProbes[i][2], Unit),
                 FloorDiv(z + CollisionProbes[i][3], Unit)).type \notin NonSolid

\* C15: a tick accepts the candidate x exactly when no probe is solid at
\* (newX, y, prevZ) and the candidate z exactly when none is solid at
\* (prevX, y, newZ), each axis keeping its previous value otherwise and neither
\* test depending on the outcome of the other.
C15_PerAxis ==
    last.op = "tick" =>
        /\ player.x = IF ~Blocked(KeyX(last.p, loop.keys), last.p.y, last.p.z)
                      THEN KeyX(last.p, loop.keys) ELSE last.p.x
        /\ player.z = IF ~Blocked(last.p.x, last.p.y, KeyZ(last.p, loop.keys))
                      THEN KeyZ(last.p, loop.keys) ELSE last.p.z

\* Both axes were accepted on their own although the position they lead to
\* together is blocked.
C15_Witness ==
    /\ last.op = "tick"
    /\ player.x # last.p.x /\ player.z # last.p.z
    /\ player.x = KeyX(last.p, loop.keys) /\ player.z = KeyZ(last.p, loop.keys)
    /\ ~Blocked(player.x, last.p.y, last.p.z)
    /\ ~Blocked(last.p.x, last.p.y, player.z)
    /\ Blocked(player.x, last.p.y, player.z)

\* An entity that the next tick does not detonate.
Burning(tnt) == tnt.fuse > 1

\* C16: an entity is created with fuse 80 and loses exactly 1 per executed
\* tick; it detonates exactly once, in the tick in which its fuse reaches 0 and
\* never earlier, is removed in that tick and never reappears: a tick leaves
\* the burning entities in order with their fuses one lower, adds one
\* detonation per entity whose fuse ran out, and every other entity it leaves
\* is new with fuse 80.
C16_FuseCountdown ==
    /\ [](/\ \A j \in 1..Len(tntEntities) : tntEntities[j].fuse \in 1..FUSE
          /\ nTicks < FUSE => (/\ booms = 0 /\ Len(tntEntities) = 1
                               /\ tntEntities[1].fuse = FUSE - nTicks)
          /\ nTicks >= FUSE => booms >= 1)
    /\ [][nTicks' = nTicks + 1 =>
            LET live == SelectSeq(tntEntities, Burning)
            IN  /\ booms' = booms + (Len(tntEntities) - Len(live))
                /\ Len(tntEntities') >= Len(live)
                /\ \A j \in 1..Len(live) : tntEntities'[j].fuse = live[j].fuse - 1
                /\ \A j \in (Len(live) + 1)..Len(tntEntities') :
                        tntEntities'[j].fuse = FUSE]_vars

\* The tick in which the fuse of the first entity ran out: it is gone, one
\* detonation was counted, and the entity left is the one the blast ignited.
C16_Witness ==
    /\ nTicks = FUSE /\ booms = 1
    /\ Len(tntEntities) = 1 /\ tntEntities[1].fuse = FUSE
    /\ last.op = "tick"

\* The voxels floor(c + d) of a detonation at the position of entity c, for the
\* integer offsets d of norm at most 4, and for every offset of a cube one wider
\* than the blast.
ReachOf(c) ==
    {<<FloorDiv(c.x + d[1] * Unit, Unit), FloorDiv(c.y + d[2] * Unit, Unit),
       FloorDiv(c.z + d[3] * Unit, Unit)>> :
        d \in {e \in (-4..4) \X (-4..4) \X (-4..4) :
                    e[1] * e[1] + e[2] * e[2] + e[3] * e[3] <= 4 * 4}}

CubeOf(c) ==
    {<<FloorDiv(c.x + d[1] * Unit, Unit), FloorDiv(c.y + d[2] * Unit, Unit),
       FloorDiv(c.z + d[3] * Unit, Unit)>> : d \in (-5..5) \X (-5..5) \X (-5..5)}

TntOf(w, voxels) == {v \in voxels : Peek(w, v[1], v[2], v[3]) = "tnt"}

\* C17: the tick that detonates an entity at centre c leaves air at every voxel
\* floor(c + d), d an integer offset of norm at most 4, that held tnt, leaves
\* exactly one new entity with fuse 80 for each of them, at its centre, and no
\* other entity; it changes no voxel that only offsets of norm above 4 reach.
C17_BlastRadius ==
    [][(nTicks' = nTicks + 1 /\ Len(tntEntities) = 1 /\ tntEntities[1].fuse = 1) =>
            /\ \A v \in TntOf(world, ReachOf(tntEntities[1])) :
                    /\ Peek(world', v[1], v[2], v[3]) = "air"
                    /\ Cardinality({j \in 1..Len(tntEntities') :
                                        /\ tntEntities'[j].x = v[1] * Unit + Unit \div 2
                                        /\ tntEntities'[j].y = v[2] * Unit + Unit \div 2
                                        /\ tntEntities'[j].z = v[3] * Unit + Unit \div 2
                                        /\ tntEntities'[j].fuse = 80}) = 1
            /\ Len(tntEntities') = Cardinality(TntOf(world, ReachOf(tntEntities[1])))
            /\ \A v \in CubeOf(tntEntities[1]) \ ReachOf(tntEntities[1]) :
                    Peek(world', v[1], v[2], v[3]) = Peek(world, v[1], v[2], v[3])]_vars

\* A detonation has ignited the tnt voxel four blocks under the first one, on
\* the rim of the blast, and destroyed blocks around it; the sand two blocks
\* off along each of the three axes, at norm above 4, stands.
C17_Witness ==
    /\ nTicks = FUSE /\ booms = 1 /\ last.op = "tick"
    /\ call.y = FirstTnt[2] - 4
    /\ Len(tntEntities) = 1
    /\ tntEntities[1].y = call.y * Unit + Unit \div 2
    /\ tntEntities[1].fuse = 80
    /\ Peek(world, call.x, call.y, call.z) = "air"
    /\ Peek(world, FirstTnt[1] + 1, FirstTnt[2] - 1, FirstTnt[3]) = "air"
    /\ Peek(world, FirstTnt[1] + 3, FirstTnt[2] - 3, FirstTnt[3] + 3) # "air"

\* C18: a break whose pick ray hits a tnt voxel, in survival and in creative
\* mode, leaves air at that voxel, adds exactly one entity with fuse 80 at the
\* centre of the voxel and changes no inventory slot.
C18_BreakIgnites ==
    [][(/\ last'.op = "break" /\ nEvents' = nEvents + 1 /\ last'.hit.hit
        /\ getBlock(world, treeDraw, last'.hit.x, last'.hit.y, last'.hit.z).type = "tnt") =>
            /\ getBlock(world', treeDraw, last'.hit.x, last'.hit.y, last'.hit.z).type = "air"
            /\ Len(tntEntities') = Len(tntEntities) + 1
            /\ SubSeq(tntEntities', 1, Len(tntEntities)) = tntEntities
            /\ tntEntities'[Len(tntEntities')].fuse = 80
            /\ tntEntities'[Len(tntEntities')].x = last'.hit.x * Unit + Unit \div 2
            /\ tntEntities'[Len(tntEntities')].y = last'.hit.y * Unit + Unit \div 2
            /\ tntEntities'[Len(tntEntities')].z = last'.hit.z * Unit + Unit \div 2
            /\ inventory' = inventory]_vars

\* A creative player has just broken the tnt block in the hole under the spawn
\* column.
C18_Witness ==
    /\ last.op = "break" /\ last.hit.hit /\ last.block = "tnt"
    /\ last.p.mode = "creative"
    /\ <<last.hit.x, last.hit.y, last.hit.z>> = <<8, 32, 8>>
    /\ Peek(world, 8, 32, 8) = "air"
    /\ Len(tntEntities) = 1 /\ tntEntities[1].fuse = 80
    /\ inventory = CreativeInventory

\* C19: a survival tick lowers velY by 0.02 and adds it to y; when the player
\* collides at the resulting position y snaps to floor(y) + 1 if velY is
\* negative and to ceil(y) otherwise, and velY is set to 0 (before the jump
\* impulse); without a collision the integrated values are kept.
C19_VerticalStep ==
    (last.op = "tick" /\ last.p.mode = "survival") =>
        LET v == last.p.velY - Unit \div 50
            y == last.p.y + v
        IN  IF ~Blocked(player.x, y, player.z)
            THEN player.y = y /\ player.velY = v
            ELSE IF v < 0
            THEN /\ player.y = ((y \div Unit) + 1) * Unit
                 /\ player.velY \in {0, 150}
            ELSE /\ player.y = -((-y) \div Unit) * Unit
                 /\ player.velY = 0

\* The player, rising from a jump, collided and was put at ceil(y).
C19_Witness ==
    /\ last.op = "tick" /\ last.p.mode = "survival"
    /\ last.p.velY - Unit \div 50 > 0
    /\ Blocked(player.x, last.p.y + last.p.velY - Unit \div 50, player.z)
    /\ player.y = (last.p.y \div Unit + 1) * Unit
    /\ player.y > last.p.y + last.p.velY - Unit \div 50
    /\ player.velY = 0

\* A foot of a player at (x, y, z) is in or directly on a solid voxel: one of the
\* four lowest probe points lies in a solid voxel or in the voxel above one.
Grounded(x, y, z) ==
    \E i \in 1..4 : \E down \in {0, 1} :
        getBlock(world, treeDraw, FloorDiv(x + CollisionProbes[i][1], Unit),
                 FloorDiv(y + CollisionProbes[i][2], Unit) - down,
                 FloorDiv(z + CollisionProbes[i][3], Unit)).type \notin NonSolid

\* C20: a tick gives the jump impulse (velY 0.15) only if the jump key is held
\* and the player is not airborne, its feet resting on a solid voxel: a player
\* with no solid voxel under its feet never receives it.
C20_JumpGrounded ==
    (last.op = "tick" /\ last.p.mode = "survival" /\ player.velY = 150) =>
        /\ " " \in loop.keys
        /\ Grounded(player.x, last.p.y + last.p.velY - Unit \div 50, player.z)

\* C21: the physics step yields a grounded flag with the resolved position:
\* after a survival tick whose vertical step was stopped by a collision while
\* falling, the player's onGround is true, and after a tick in which the player
\* moved on through the air it is false.
C21_GroundedFlag ==
    (last.op = "tick" /\ last.p.mode = "survival") =>
        LET v == last.p.velY - Unit \div 50
            y == last.p.y + v
        IN  /\ (Blocked(player.x, y, player.z) /\ v < 0) => player.onGround
            /\ ~Blocked(player.x, y, player.z) => ~player.onGround

\* The voxel of the i-th sample of the view ray of player p: the floor of
\* p + dir * (i * 0.1) on each axis.
RaySample(p, i) ==
    LET dir == RayDir(p)
    IN  <<(p.x * Fx + dir.x * i * (Unit \div 10)) \div (Unit * Fx),
          (p.y * Fx + dir.y * i * (Unit \div 10)) \div (Unit * Fx),
          (p.z * Fx + dir.z * i * (Unit \div 10)) \div (Unit * Fx)>>

\* What the world w holds at voxel v.
VoxelAt(w, v) == getBlock(w, treeDraw, v[1], v[2], v[3]).type

\* C22: the pick ray of a break or place samples the view ray at the distances
\* i * 0.1, i = 0..49, and returns the voxel of the first sample that holds
\* neither air nor water; it returns none when no sample is solid; it never
\* returns an air or water voxel nor a voxel behind an earlier solid sample.
C22_PickRay ==
    [][(last'.op \in {"break", "place", "noplace"} /\ nEvents' = nEvents + 1) =>
            LET p == eff.player
                solid == {i \in 0..49 : VoxelAt(world, RaySample(p, i)) \notin NonSolid}
            IN  IF solid # {}
                THEN /\ last'.hit.hit
                     /\ \E i \in solid :
                            /\ \A j \in solid : i <= j
                            /\ <<last'.hit.x, last'.hit.y, last'.hit.z>> = RaySample(p, i)
                     /\ getBlock(world, treeDraw, last'.hit.x, last'.hit.y,
                                 last'.hit.z).type \notin NonSolid
                ELSE ~last'.hit.hit]_vars

\* A break from the spawn column, looking west and 45 degrees down: the ray
\* went through the water of columns 6 and 5 and took the sand block under it.
C22_Witness ==
    /\ last.op = "break" /\ last.hit.hit
    /\ last.p.x = 8 * Unit /\ last.p.y = 36 * Unit /\ last.p.angleX = 2 * HalfPi
    /\ <<last.hit.x, last.hit.y, last.hit.z>> = <<4, 32, 8>>
    /\ \E i \in 0..49 : RaySample(last.p, i) = <<6, 34, 8>>
    /\ \E i \in 0..49 : RaySample(last.p, i) = <<5, 33, 8>>
    /\ Peek(world, 6, 34, 8) = "water" /\ Peek(world, 5, 33, 8) = "water"
    /\ last.block = "sand" /\ Peek(world, 4, 32, 8) = "air"

\* C23: a break or place triggered by a mouse click acts on the player state
\* as of the most recently completed tick and key event: its pick ray starts at
\* the player's current position and view angles and place uses the currently
\* selected slot, for every interleaving of ticks, mouse moves, slot selections
\* and clicks after pointer lock was acquired.
C23_ClickSeesPlayer ==
    [][(last'.op \in {"break", "place", "noplace"} /\ nEvents' = nEvents + 1) =>
            /\ last'.p.x = player.x /\ last'.p.y = player.y /\ last'.p.z = player.z
            /\ last'.p.angleX = player.angleX /\ last'.p.angleY = player.angleY
            /\ last'.p.selectedSlot = player.selectedSlot]_vars

\* C25: the session mode becomes 'playing' only through startGame, which resets
\* world, entities, inventory and player, or by closing an inventory or
\* creative overlay; no key press or button click leads from the menu or the
\* settings screen to 'playing' without that reset.
C25_PlayingByStart ==
    [][(gameMode' = "playing" /\ gameMode # "playing") =>
            \/ /\ last'.op = "start"
               /\ world' = <<>> /\ tntEntities' = <<>>
               /\ player' = SpawnPlayer(player'.mode)
            \/ gameMode \in {"inventory", "creative"}]_vars

\* C24: a place never overwrites a solid voxel: whatever the hit of the pick ray
\* and the view direction, the voxel placeBlock writes held air or water
\* immediately before the write.
C24_PlaceIntoSpace ==
    [][(last'.op = "place" /\ nEvents' = nEvents + 1) =>
            \A v \in (CubeOf([x |-> last'.hit.x * Unit, y |-> last'.hit.y * Unit,
                              z |-> last'.hit.z * Unit])) :
                VoxelAt(world', v) # VoxelAt(world, v) => VoxelAt(world, v) \in NonSolid]_vars

\* C26: in survival mode, with the world unchanged, a player none of whose
\* twelve probe points lay in a solid voxel before a tick has none in a solid
\* voxel after it, whatever keys are held and whatever the fall speed.
C26_NeverEmbedded ==
    (/\ last.op = "tick" /\ last.p.mode = "survival"
     /\ ~Blocked(last.p.x, last.p.y, last.p.z))
        => ~Blocked(player.x, player.y, player.z)

\* The voxels of the world w that hold tnt: generated terrain has none, so they
\* are among the cells written since.
TntVoxels(w) ==
    UNION {{<<w[k].cx * CHUNK_SIZE + c[1], c[2], w[k].cz * CHUNK_SIZE + c[3]>> :
                c \in {e \in DOMAIN w[k].edits : w[k].edits[e] = "tnt"}} : k \in DOMAIN w}

\* C27: a tnt voxel is ignited at most once, ignition replacing it with air in
\* the step that spawns its entity: every step, a tick with any number of
\* detonations or a click, adds exactly one entity with fuse 80 for each tnt
\* voxel it turns to air, at the centre of that voxel, and no other entity, so
\* that the entities ever spawned are as many as the tnt voxels ignited.
C27_TntConservation ==
    [][LET kept == IF nTicks' = nTicks + 1 THEN Len(SelectSeq(tntEntities, Burning))
                   ELSE Len(tntEntities)
           converted == {v \in TntVoxels(world) : VoxelAt(world', v) = "air"}
       IN  /\ Len(tntEntities') - kept = Cardinality(converted)
           /\ \A v \in converted :
                Cardinality({j \in (kept + 1)..Len(tntEntities') :
                                /\ tntEntities'[j].x = v[1] * Unit + Unit \div 2
                                /\ tntEntities'[j].y = v[2] * Unit + Unit \div 2
                                /\ tntEntities'[j].z = v[3] * Unit + Unit \div 2
                                /\ tntEntities'[j].fuse = FUSE}) = 1]_vars

\* The tick in which the entities of the blocks (9,32,8) and (10,32,8), ignited
\* together by the first blast, detonated together, the block (13,32,8) within
\* radius 4 of both: it reads air and has one entity; no tnt voxel is left.
C27_Witness ==
    /\ nTicks = 2 * FUSE /\ booms = 4 /\ last.op = "tick"
    /\ VoxelAt(world, ChainTnts[3]) = "air"
    /\ TntVoxels(world) = {}
    /\ Len(tntEntities) = 1
    /\ tntEntities[1].x = ChainTnts[3][1] * Unit + Unit \div 2
    /\ tntEntities[1].y = ChainTnts[3][2] * Unit + Unit \div 2
    /\ tntEntities[1].fuse = FUSE

\* Some voxel reads differently in the worlds w1 and w2: a chunk resident in
\* both holds different written cells, or a chunk resident in one only holds
\* written cells.
Differs(w1, w2) ==
    \/ \E k \in (DOMAIN w1) \cap (DOMAIN w2) : w1[k].edits # w2[k].edits
    \/ \E k \in (DOMAIN w1) \ (DOMAIN w2) : w1[k].edits # <<>>
    \/ \E k \in (DOMAIN w2) \ (DOMAIN w1) : w2[k].edits # <<>>

\* C28: placeBlock modifies the world iff the pick ray hits a solid voxel, the
\* selected slot holds a kind with count > 0 and the target voxel lies outside
\* the voxel range of the player's box (x +/- 0.3, y - 1.8 .. y + 0.2,
\* z +/- 0.3); in every other case the world and the inventory are unchanged,
\* and in creative mode an accepted place leaves the inventory unchanged.
C28_PlaceGuards ==
    [][(last'.op \in {"place", "noplace"} /\ nEvents' = nEvents + 1) =>
            LET p == eff.player
                hit == last'.hit
                sel == inventory[p.selectedSlot + 1]
                tx == hit.x + faceOffsets[hit.face][1]
                ty == hit.y + faceOffsets[hit.face][2]
                tz == hit.z + faceOffsets[hit.face][3]
                outside == \/ tx < (p.x - 300) \div Unit \/ tx > (p.x + 300) \div Unit
                           \/ ty < (p.y - 1800) \div Unit \/ ty > (p.y + 200) \div Unit
                           \/ tz < (p.z - 300) \div Unit \/ tz > (p.z + 300) \div Unit
                accepted == hit.hit /\ sel.type # NULL /\ sel.count > 0 /\ outside
            IN  /\ Differs(world, world') <=> accepted
                /\ ~accepted => inventory' = inventory
                /\ (accepted /\ p.mode = "creative") => inventory' = inventory]_vars

\* C29: in the shooter the player's ammo is never negative: a shot whose ammo
\* cost exceeds the current ammo is not fired, for every interleaving of
\* clicks, pickups and ticks.
C29_AmmoNonNegative == shooter.ammo >= 0

\* C30: in every state the health of the shooter's player is within 0..100,
\* also after several enemy bullets hit in one tick, and is 0 only when the
\* game state is 'gameOver'; every start of a new game, from the menu or the
\* game-over screen, leaves it at 100.
StartsGame == shooter.gameState \in {"menu", "gameOver"} /\ shooter'.gameState = "playing"

C30_ZeroOnlyGameOver ==
    /\ [](/\ shooter.health \in 0..100
          /\ shooter.health = 0 => shooter.gameState = "gameOver")
    /\ [][StartsGame => shooter'.health = 100]_vars

====
